---- MODULE Spec2Model ----
(***************************************************************************)
(* Catalog-backed resource lifecycle manager of opencode-config-gui:       *)
(* AgencyCatalog (time-cached catalog client), GitHubAppService (token     *)
(* cache and pull-request workflow) and the Skills / Agents / MCP managers.*)
(* Times are milliseconds, as Date.now() gives them.                       *)
(***************************************************************************)
EXTENDS Integers, Sequences, FiniteSets, TLC

VARIABLES
    now,            \* Date.now()
    skillsCache,    \* AgencyCatalog.skillsCache
    mcpCache,       \* AgencyCatalog.mcpCache
    agentsCache,    \* AgencyCatalog.agentsCache
    cacheExpiry,    \* AgencyCatalog.cacheExpiry
    call,           \* the fetchK invocations awaiting their response
    ret,            \* what the fetchK that returned last returned
    appId,          \* GitHubAppService.appId
    privateKey,     \* GitHubAppService.privateKey
    installationId, \* GitHubAppService.installationId
    cachedToken,    \* GitHubAppService.cachedToken
    proc,           \* the requestSkill / createSkillRequestPR invocations in progress
    reply,          \* what the requestSkill that returned last returned
    skillsDir,      \* the entries of SkillsManager.globalSkillsDir
    agentsDir,      \* the files AgentsManager writes, by the name they are built from
    op,             \* the manager operations in progress
    out,            \* what the manager operation that ended last returned or threw
    probe,          \* the last evaluation of a pure function: its argument and result
    mcp,            \* the mcp map of the shared JSON configuration
    mcpOut          \* what the McpManager call that ended last did and returned

catalogVars == <<skillsCache, mcpCache, agentsCache, cacheExpiry, call, ret>>
githubVars == <<appId, privateKey, installationId, cachedToken, proc, reply>>

\* what an operation of the catalog, or of the GitHub service, leaves alone
managerVars == <<skillsDir, agentsDir, op, out>>
mcpVars == <<mcp, mcpOut>>
notCatalog == <<githubVars, managerVars, probe, mcpVars>>
notGitHub == <<catalogVars, managerVars, probe, mcpVars>>

\* a cache slot that holds null
Null == [kind |-> "null", at |-> 0]

----------------------------------------------------------------------------
(* Bounds and time units *)

MaxCalls == 2           \* fetchK invocations that may overlap
MaxHalfHours == 2       \* the catalog clock runs over 0 .. MaxHalfHours half hours
MaxSlugLen == 4         \* length of the strings the slug test is tried on
MaxProcs == 2           \* requestSkill invocations that may overlap
MaxTextLen == 202       \* length of the descriptions an index entry is made of
MaxOps == 2             \* manager calls that may overlap

Second == 1000
Minute == 60 * Second
HalfHour == 30 * Minute

----------------------------------------------------------------------------
(* Text: a string is a sequence of characters; a document is a sequence of   *)
(* lines, each a sequence of tokens (a key with its colon, a space, a word). *)

LowerAlnum ==
    {"a", "b", "c", "d", "e", "f", "g", "h", "i", "j", "k", "l", "m",
     "n", "o", "p", "q", "r", "s", "t", "u", "v", "w", "x", "y", "z",
     "0", "1", "2", "3", "4", "5", "6", "7", "8", "9"}

\* the matcher of /^[a-z0-9]+(-[a-z0-9]*)*$/: a hyphen may follow a hyphen or end the string
SlugStepEmptySegment(state, ch) ==
    CASE state \in {"start"} -> IF ch \in LowerAlnum THEN "seg" ELSE "fail"
      [] state \in {"seg", "hyphen"} -> IF ch \in LowerAlnum \/ ch = "-" THEN "seg" ELSE "fail"
      [] OTHER -> "fail"

\* one step of the matcher of /^[a-z0-9]+(-[a-z0-9]+)*$/
SlugStep(state, ch) ==
    CASE state = "start"  -> IF ch \in LowerAlnum THEN "seg" ELSE "fail"
      [] state = "seg"    -> IF ch \in LowerAlnum THEN "seg"
                             ELSE IF ch = "-" THEN "hyphen" ELSE "fail"
      [] state = "hyphen" -> IF ch \in LowerAlnum THEN "seg" ELSE "fail"
      [] OTHER            -> "fail"

RECURSIVE SlugRun(_, _)
SlugRun(state, str) ==
    IF str = <<>> THEN state ELSE SlugRun(SlugStep(state, Head(str)), Tail(str))

\* /^[a-z0-9]+(-[a-z0-9]+)*$/.test(id)
isValidSlug(str) == SlugRun("start", str) = "seg"

Keys == {"name:", "description:", "mode:", "model:", "temperature:", "metadata:"}

\* does the line start with the three hyphens of a delimiter
StartsDelimiter(line) == line # <<>> /\ line[1] = "---"

\* content.match(/^---\n([\s\S]*?)\n---/): the index of the closing line, 0 for no match
FrontmatterEnd(doc) ==
    IF Len(doc) >= 3 /\ doc[1] = <<"---">>
       /\ \E j \in 3..Len(doc) : StartsDelimiter(doc[j])
    THEN CHOOSE j \in 3..Len(doc) :
            /\ StartsDelimiter(doc[j])
            /\ \A k \in 3..(j - 1) : ~StartsDelimiter(doc[k])
    ELSE 0

\* capture group 1 of the frontmatter match: the lines between the delimiters
Frontmatter(doc) == SubSeq(doc, 2, FrontmatterEnd(doc) - 1)

RECURSIVE TrimLeft(_)
TrimLeft(line) ==
    IF line # <<>> /\ Head(line) = " " THEN TrimLeft(Tail(line)) ELSE line

RECURSIVE TrimRight(_)
TrimRight(line) ==
    IF line # <<>> /\ line[Len(line)] = " "
    THEN TrimRight(SubSeq(line, 1, Len(line) - 1)) ELSE line

\* String.prototype.trim on one line of text
Trim(line) == TrimRight(TrimLeft(line))

\* the text after the key of line i, through the end of the block: what \s*(.+)$ scans
Rest(fm, i) == <<Tail(fm[i])>> \o SubSeq(fm, i + 1, Len(fm))

\* /^key:\s*(.+)$/m at line i: \s* runs over spaces and line ends, (.+) needs one
\* character that is no line end; none after the key means no match at this line
MatchesAt(fm, key, i) ==
    /\ fm[i] # <<>> /\ fm[i][1] = key
    /\ \E k \in 1..Len(Rest(fm, i)) : Rest(fm, i)[k] # <<>>

\* the text (.+) captures at line i, trimmed: the first line with a character
\* that is no space, from that character on; only spaces left capture spaces
CapturedAt(fm, i) ==
    LET rest == Rest(fm, i)
        solid == {k \in 1..Len(rest) : Trim(rest[k]) # <<>>}
    IN IF solid = {} THEN <<>>
       ELSE Trim(rest[CHOOSE k \in solid : \A m \in solid : k <= m])

\* frontmatter.match(/^key:\s*(.+)$/m): is there a match
HasKey(fm, key) == \E i \in 1..Len(fm) : MatchesAt(fm, key, i)

\* match[1].trim() of the leftmost match
KeyValue(fm, key) ==
    CapturedAt(fm, CHOOSE i \in 1..Len(fm) :
                      /\ MatchesAt(fm, key, i)
                      /\ \A m \in 1..(i - 1) : ~MatchesAt(fm, key, m))

----------------------------------------------------------------------------
(* Frontmatter documents of skills and agents *)

\* the number of characters of a word of the vocabulary
WordLength ==
    [w \in {" ", "x", "d", "a", "code", "primary", "subagent", "all", "boss", "a/b", "gpt",
            "0.0", "0.5", "1.0", "1.1", "1.5", "-0.5", "hot", "w200", "w201",
            "mode:", "name:", "model:", "description:", "temperature:", "metadata:"} |->
        CASE w \in {" ", "x", "d", "a"} -> 1
          [] w \in {"a/b", "gpt", "0.0", "0.5", "1.0", "1.1", "1.5", "hot", "all"} -> 3
          [] w \in {"code", "boss", "-0.5"} -> 4
          [] w \in {"mode:", "name:"} -> 5
          [] w = "model:" -> 6
          [] w = "primary" -> 7
          [] w = "subagent" -> 8
          [] w = "metadata:" -> 9
          [] w \in {"description:", "temperature:"} -> 12
          [] w = "w200" -> 200
          [] w = "w201" -> 201]

RECURSIVE TextLength(_)
TextLength(line) ==
    IF line = <<>> THEN 0 ELSE WordLength[Head(line)] + TextLength(Tail(line))

\* model.includes('/')
IncludesSlash(line) == \E i \in 1..Len(line) : line[i] = "a/b"

NaN == 0 - 1000

\* parseFloat of a text, in tenths: the number its first word starts with, else NaN
parseFloat(line) ==
    IF line = <<>> THEN NaN
    ELSE CASE line[1] = "0.5" -> 5
           [] line[1] = "1.5" -> 15
           [] line[1] = "0.0" -> 0
           [] line[1] = "1.0" -> 10
           [] line[1] = "1.1" -> 11
           [] line[1] = "-0.5" -> 0 - 5
           [] OTHER -> NaN

NoSkill == [name |-> <<"null">>, description |-> <<"null">>]

\* SkillsManager.parseSkillContent (the optional metadata map is left out)
parseSkillContent(doc) ==
    IF FrontmatterEnd(doc) = 0 THEN NoSkill
    ELSE LET fm == Frontmatter(doc) IN
         IF ~HasKey(fm, "name:") \/ ~HasKey(fm, "description:") THEN NoSkill
         ELSE [name |-> KeyValue(fm, "name:"), description |-> KeyValue(fm, "description:")]

ErrFrontmatter == [field |-> "frontmatter",
                   message |-> "Agent must have YAML frontmatter (content between --- markers)"]
ErrDescRequired == [field |-> "description", message |-> "Description is required"]
ErrDescLong == [field |-> "description", message |-> "Description must be 200 characters or less"]
ErrMode == [field |-> "mode", message |-> "Mode must be \"primary\", \"subagent\", or \"all\""]
ErrModel == [field |-> "model", message |-> "Model should be in format \"provider/model-id\""]
ErrTemperature == [field |-> "temperature",
                   message |-> "Temperature must be a number between 0.0 and 1.0"]

\* AgentsManager.validateAgentContent
validateAgentContent(doc) ==
    IF FrontmatterEnd(doc) = 0 THEN <<ErrFrontmatter>>
    ELSE LET fm == Frontmatter(doc) IN
         (IF ~HasKey(fm, "description:") \/ KeyValue(fm, "description:") = <<>>
          THEN <<ErrDescRequired>>
          ELSE IF TextLength(KeyValue(fm, "description:")) > 200
               THEN <<ErrDescLong>> ELSE <<>>)
         \o
         (IF HasKey(fm, "mode:")
             /\ KeyValue(fm, "mode:") \notin {<<"primary">>, <<"subagent">>, <<"all">>}
          THEN <<ErrMode>> ELSE <<>>)
         \o
         (IF HasKey(fm, "model:") /\ KeyValue(fm, "model:") # <<>>
             /\ ~IncludesSlash(KeyValue(fm, "model:"))
          THEN <<ErrModel>> ELSE <<>>)
         \o
         (IF HasKey(fm, "temperature:")
             /\ LET temp == parseFloat(KeyValue(fm, "temperature:"))
                IN temp = NaN \/ temp < 0 \/ temp > 10
          THEN <<ErrTemperature>> ELSE <<>>)

NoAgent == [description |-> <<"null">>, mode |-> <<"null">>, model |-> <<"null">>]
Undefined == <<"undefined">>

\* AgentsManager.parseAgentContent
parseAgentContent(doc) ==
    IF FrontmatterEnd(doc) = 0 THEN NoAgent
    ELSE LET fm == Frontmatter(doc) IN
         IF ~HasKey(fm, "description:") THEN NoAgent
         ELSE [description |-> KeyValue(fm, "description:"),
               mode  |-> IF HasKey(fm, "mode:") THEN KeyValue(fm, "mode:") ELSE Undefined,
               model |-> IF HasKey(fm, "model:") THEN KeyValue(fm, "model:") ELSE Undefined]

\* the documents the catalog, skills.sh and the editor supply
SkillDoc == << <<"---">>, <<"name:", " ", "x">>, <<"description:", " ", "code">>,
               <<"---">>, <<"boss">> >>
SkillDocNoDescription == << <<"---">>, <<"name:", " ", "x">>, <<"---">>,
                            <<"description:", " ", "d">> >>
PlainPage == << <<"boss">>, <<"code">> >>
AgentDoc == << <<"---">>, <<"description:", " ", "d">>, <<"mode:", " ", "primary">>,
               <<"model:", " ", "a/b">>, <<"temperature:", " ", "0.5">>, <<"---">>, <<"x">> >>
AgentDocBad == << <<"---">>, <<"description:", " ", "w201">>, <<"mode:", " ", "boss">>,
                  <<"model:", " ", "gpt">>, <<"temperature:", " ", "1.5">>, <<"---">> >>
NoContent == <<>>
\* a skill document that declares the name a
SkillDocA == << <<"---">>, <<"name:", " ", "a">>, <<"description:", " ", "code">>,
                <<"---">>, <<"boss">> >>
\* documents whose required key has no value on its line and another line after it
SkillDocEmptyName == << <<"---">>, <<"name:">>, <<"description:", " ", "code">>, <<"---">> >>
AgentDocEmptyDescription == << <<"---">>, <<"description:">>, <<"mode:", " ", "primary">>,
                               <<"---">> >>

----------------------------------------------------------------------------
(* AgencyCatalog *)

Kinds == {"skills", "mcp", "agents"}

cacheDuration == 60 * 60 * 1000

\* fetch() rejects (status 0) or resolves with an HTTP status
CatalogStatuses == {0, 200, 404}

ResponseOk(status) == status >= 200 /\ status <= 299

\* the list a catalog response carries: the kind's entries as served at an instant
Snapshot(K, t) == [kind |-> K, at |-> t]

Slot(K) ==
    CASE K = "skills" -> skillsCache
      [] K = "mcp"    -> mcpCache
      [] K = "agents" -> agentsCache

\* the early return of fetchK: !forceRefresh && cache && Date.now() < cacheExpiry
CacheFreshIgnoreForce(K, force) == Slot(K) # Null /\ now < cacheExpiry
CacheFresh(K, force) == ~force /\ Slot(K) # Null /\ now < cacheExpiry

IdleCall == [pc |-> "idle", kind |-> "skills", force |-> FALSE]

NoReturn == [kind |-> "null", force |-> FALSE, requested |-> FALSE, net |-> -1,
             threw |-> FALSE, result |-> Null, at |-> 0]

\* fetchK(forceRefresh) up to its first await: the cache hit, or the request
FetchCall(c, K, force) ==
    /\ call[c].pc = "idle"
    /\ IF CacheFresh(K, force)
       THEN /\ ret' = [kind |-> K, force |-> force, requested |-> FALSE, net |-> -1,
                       threw |-> FALSE, result |-> Slot(K), at |-> now]
            /\ UNCHANGED call
       ELSE /\ call' = [call EXCEPT ![c] = [pc |-> "awaiting", kind |-> K, force |-> force]]
            /\ UNCHANGED ret
    /\ UNCHANGED <<now, skillsCache, mcpCache, agentsCache, cacheExpiry, notCatalog>>

\* the try block storing the list in every slot
StoreSnapshotEverywhere(K, snap) ==
    /\ skillsCache' = snap
    /\ mcpCache'    = snap
    /\ agentsCache' = snap
    /\ cacheExpiry' = now + cacheDuration

\* the try block after a 2xx response: store the list, set the shared expiry
StoreSnapshot(K, snap) ==
    /\ skillsCache' = IF K = "skills" THEN snap ELSE skillsCache
    /\ mcpCache'    = IF K = "mcp"    THEN snap ELSE mcpCache
    /\ agentsCache' = IF K = "agents" THEN snap ELSE agentsCache
    /\ cacheExpiry' = now + cacheDuration

\* the catch block: the cached list if there is one, else the error
FallbackFreshOnly(K) == IF Slot(K) # Null /\ now < cacheExpiry THEN Slot(K) ELSE Null
Fallback(K) == Slot(K)

\* fetchK from the settling of its request to its return
FetchSettle(c, status) ==
    /\ call[c].pc = "awaiting"
    /\ LET K == call[c].kind
           settled == [kind |-> K, force |-> call[c].force, requested |-> TRUE,
                       net |-> status, threw |-> FALSE, result |-> Null, at |-> now]
       IN
       IF ResponseOk(status)
       THEN /\ StoreSnapshot(K, Snapshot(K, now))
            /\ ret' = [settled EXCEPT !.result = Snapshot(K, now)]
       ELSE /\ UNCHANGED <<skillsCache, mcpCache, agentsCache, cacheExpiry>>
            /\ ret' = [settled EXCEPT !.result = Fallback(K), !.threw = (Fallback(K) = Null)]
    /\ call' = [call EXCEPT ![c] = IdleCall]
    /\ UNCHANGED <<now, notCatalog>>

clearCache ==
    /\ skillsCache' = Null
    /\ mcpCache' = Null
    /\ agentsCache' = Null
    /\ cacheExpiry' = 0
    /\ UNCHANGED <<now, call, ret, notCatalog>>

\* time passes between two events of the catalog
CatalogTick ==
    /\ \E k \in 1..MaxHalfHours : k * HalfHour > now /\ now' = k * HalfHour
    /\ UNCHANGED <<catalogVars, notCatalog>>

InitCatalog ==
    /\ skillsCache = Null
    /\ mcpCache = Null
    /\ agentsCache = Null
    /\ cacheExpiry = 0
    /\ call = [c \in 1..MaxCalls |-> IdleCall]
    /\ ret = NoReturn

----------------------------------------------------------------------------
(* GitHubAppService and SkillsManager.requestSkill *)

isConfiguredAppIdOnly == appId # ""
\* GitHubAppService.isConfigured
isConfigured == appId # "" /\ privateKey # "" /\ installationId # ""

NoToken == [token |-> 0, expiresAt |-> 0]

\* the installation tokens GitHub issues are valid for one hour
TokenLifetime == 60 * Minute

\* the response of the token endpoint at an instant; the opaque token string is
\* named by the instant at which GitHub expires it
TokenResponse(t) == [token |-> t + TokenLifetime, expires_at |-> t + TokenLifetime]

\* the cache check of getInstallationToken
TokenUsableInclusive == cachedToken # NoToken /\ now <= cachedToken.expiresAt
TokenUsable == cachedToken # NoToken /\ now < cachedToken.expiresAt

\* the cache entry written from a token response: expires_at minus the 5 minute buffer
CacheEntry(data) == [token |-> data.token, expiresAt |-> data.expires_at - 5 * 60 * 1000]

\* the requests of createSkillRequestPR in program order, and the step of each
Requests == <<"ref", "branch", "file", "indexRead", "indexWrite", "pull">>
StepOf == <<1, 2, 3, 4, 4, 5>>

ApiStatuses == {0, 200, 404, 422}

NoStatus == 0 - 1

NoError == [message |-> "", status |-> NoStatus, body |-> FALSE]
Failure(message) ==
    [success |-> FALSE, error |-> [message |-> message, status |-> NoStatus, body |-> FALSE]]
Pending == [success |-> FALSE, error |-> NoError]
Success == [success |-> TRUE, error |-> NoError]

StepMessage ==
    <<"Failed to get branch ref", "Failed to create branch", "Failed to create SKILL.md",
      "Failed to fetch skills.json", "Failed to update skills.json", "Failed to create PR">>

\* the Error thrown for a non-2xx response to request k: message and status, and
\* the response body for the pull request; a rejected fetch carries its own message
StepErrorGenericAtFile(k, status) ==
    IF status = 0 THEN [message |-> "fetch failed", status |-> NoStatus, body |-> FALSE]
    ELSE IF k = 3 THEN [message |-> "Failed to create skill request", status |-> NoStatus,
                        body |-> FALSE]
    ELSE [message |-> StepMessage[k], status |-> status, body |-> (k = 6)]
StepError(k, status) ==
    IF status = 0 THEN [message |-> "fetch failed", status |-> NoStatus, body |-> FALSE]
    ELSE [message |-> StepMessage[k], status |-> status, body |-> (k = 6)]

\* the URLs a caller passes: what new URL(url) makes of them
NoUrl == [valid |-> FALSE, hostname |-> "", parts |-> <<>>]
Urls ==
    {NoUrl,
     [valid |-> TRUE, hostname |-> "evil.sh", parts |-> <<"o", "r", <<"a">>>>],
     [valid |-> TRUE, hostname |-> "skills.sh", parts |-> <<<<"a">>>>],
     [valid |-> TRUE, hostname |-> "skills.sh", parts |-> <<"o", <<"A", "_", "b">>>>],
     [valid |-> TRUE, hostname |-> "skills.sh", parts |-> <<"o", <<"a", "-", "b">>>>],
     [valid |-> TRUE, hostname |-> "skills.sh", parts |-> <<"o", "r", <<"a", "-", "b">>>>]}

\* what skills.sh and raw.githubusercontent.com answer with
PageStatuses == {0, 200, 404}
Pages == {SkillDoc, SkillDocNoDescription, PlainPage, NoContent}

\* an invocation: where it stands, its url while requestSkill needs it, the index
\* of the raw URL tried, the current request of the workflow and the statuses the
\* workflow received, the bearer token of the request in flight and the instant
\* of the token check made for it, the timestamp of its branch name (NoBranch
\* while none is made), the file it read from skills.json and the branch GitHub
\* created for it
NoBranch == 0 - 1

\* DEFAULT_BRANCH, and no branch at all
DefaultBranch == [skillName |-> <<"master">>, timestamp |-> NoBranch]
NoBranchName == [skillName |-> <<>>, timestamp |-> NoBranch]

\* the contents response for skills.json: the blob sha and the decoded skills
\* list, each entry by its id and path
NoSha == ""
NoFile == [sha |-> NoSha, skills |-> <<>>]
IndexFile == [sha |-> "s1", skills |-> <<[id |-> <<"x">>, path |-> <<"lib", "/", "x">>]>>]

IdleProc ==
    [pc |-> "idle", url |-> NoUrl, rawIdx |-> 0, step |-> 0, resp |-> <<>>,
     bearer |-> 0, at |-> 0, branch |-> NoBranch, catalogData |-> NoFile,
     created |-> NoBranchName, result |-> Pending]

\* skillName, the last path segment of the URL
SkillName(pr) == pr.url.parts[Len(pr.url.parts)]

\* `skill-request/${skillName}-${timestamp}`
BranchName(pr) == [skillName |-> SkillName(pr), timestamp |-> pr.branch]

\* skillFilePath = `skills/${skillName}/SKILL.md`
SkillFilePath(skillName) == <<"skills", "/">> \o skillName \o <<"/", "SKILL.md">>

\* catalogContent.skills.push({ id: skillName, ..., path: skillFilePath, ... })
Pushed(skills, skillName) ==
    Append(skills, [id |-> skillName, path |-> SkillFilePath(skillName)])

\* the API request of an invocation for its current step: the branch it names
\* (the ref to read or create, the branch of a contents call, the head of the
\* pull request), and for the index update the blob sha and the new skills list
RequestOnDefaultBranch(pr) ==
    [name |-> Requests[pr.step],
     branch |-> IF pr.step = 1 \/ pr.step = 5 THEN DefaultBranch ELSE BranchName(pr),
     sha |-> IF pr.step = 5 THEN pr.catalogData.sha ELSE NoSha,
     skills |-> IF pr.step = 5 THEN Pushed(pr.catalogData.skills, SkillName(pr)) ELSE <<>>]
Request(pr) ==
    [name |-> Requests[pr.step],
     branch |-> IF pr.step = 1 THEN DefaultBranch ELSE BranchName(pr),
     sha |-> IF pr.step = 5 THEN pr.catalogData.sha ELSE NoSha,
     skills |-> IF pr.step = 5 THEN Pushed(pr.catalogData.skills, SkillName(pr)) ELSE <<>>]

NoReply == [url |-> NoUrl, networked |-> FALSE, issued |-> 0, resp |-> <<>>,
            result |-> Pending, returned |-> FALSE]

\* the API requests an invocation has issued: the current one counts once its
\* token is there
Issued(pr) == IF pr.pc = "token" THEN pr.step - 1 ELSE pr.step

\* what the caller gets back, with what the invocation did
ReplyOf(pr, url, networked, issued) ==
    [url |-> url, networked |-> networked, issued |-> issued, resp |-> pr.resp,
     result |-> pr.result, returned |-> TRUE]

\* an invocation moves on to nxt; when nxt is a return, the caller has the reply
\* and the locals are gone
Commit(p, nxt) ==
    IF nxt.pc = "done"
    THEN /\ proc' = [proc EXCEPT ![p] = IdleProc]
         /\ reply' = ReplyOf(nxt, nxt.url, proc[p].pc # "idle", Issued(proc[p]))
    ELSE /\ proc' = [proc EXCEPT ![p] = nxt]
         /\ UNCHANGED reply

\* githubRequest for request k: the token check of getInstallationToken, then the
\* API request with the cached token, or first the token exchange
GithubRequest(pr, k) ==
    IF TokenUsable
    THEN [pr EXCEPT !.pc = "api", !.step = k, !.at = now, !.bearer = cachedToken.token]
    ELSE [pr EXCEPT !.pc = "token", !.step = k, !.at = now]

\* content.includes('---') && (content.includes('name:') || content.includes('description:'))
LooksLikeSkill(doc) ==
    /\ \E i \in 1..Len(doc) : \E j \in 1..Len(doc[i]) : doc[i][j] = "---"
    /\ \E i \in 1..Len(doc) : \E j \in 1..Len(doc[i]) : doc[i][j] \in {"name:", "description:"}

\* requestSkill going on to createSkillRequestPR with whatever content it has
WithContentUnparsed(pr, content) ==
    IF content = NoContent
    THEN [pr EXCEPT !.pc = "done",
                    !.result = Failure("Failed to fetch skill content from skills.sh")]
    ELSE GithubRequest(pr, 1)

\* requestSkill once fetchSkillFromSkillsSh has returned the content (or null):
\* the parse, then createSkillRequestPR up to its first await
WithContent(pr, content) ==
    IF content = NoContent
    THEN [pr EXCEPT !.pc = "done",
                    !.result = Failure("Failed to fetch skill content from skills.sh")]
    ELSE IF parseSkillContent(content) = NoSkill
    THEN [pr EXCEPT !.pc = "done",
                    !.result = Failure("Invalid SKILL.md format: missing required frontmatter (name, description)")]
    ELSE GithubRequest(pr, 1)

\* SkillsManager.requestSkill(url) up to its first await
requestSkill(p, url) ==
    /\ proc[p].pc = "idle"
    /\ LET pr == [proc[p] EXCEPT !.url = url] IN
       Commit(p,
          IF ~isConfigured
          THEN [pr EXCEPT !.pc = "done",
                  !.result = Failure("Skill requests are not configured. Contact your administrator.")]
          ELSE IF ~url.valid
          THEN [pr EXCEPT !.pc = "done", !.result = Failure("Invalid URL")]
          ELSE IF url.hostname # "skills.sh"
          THEN [pr EXCEPT !.pc = "done", !.result = Failure("URL must be from skills.sh")]
          ELSE IF Len(url.parts) < 2
          THEN [pr EXCEPT !.pc = "done",
                  !.result = Failure("Invalid skills.sh URL format. Expected: skills.sh/org/repo/skill")]
          ELSE IF ~isValidSlug(url.parts[Len(url.parts)])
          THEN [pr EXCEPT !.pc = "done", !.result = Failure("Invalid skill name format in URL")]
          ELSE [pr EXCEPT !.pc = "skillsSh"])
    /\ UNCHANGED <<now, appId, privateKey, installationId, cachedToken, notGitHub>>

\* fetchSkillFromSkillsSh: the direct fetch settles
SkillsShSettle(p, status, page) ==
    /\ proc[p].pc = "skillsSh"
    /\ Commit(p,
          IF status = 0 THEN WithContent(proc[p], NoContent)
          ELSE IF ResponseOk(status) /\ LooksLikeSkill(page) THEN WithContent(proc[p], page)
          ELSE IF Len(proc[p].url.parts) >= 3
          THEN [proc[p] EXCEPT !.pc = "raw", !.rawIdx = 1]
          ELSE WithContent(proc[p], NoContent))
    /\ UNCHANGED <<now, appId, privateKey, installationId, cachedToken, notGitHub>>

\* fetchSkillFromSkillsSh: one of the three raw GitHub URLs settles
RawSettle(p, status, page) ==
    /\ proc[p].pc = "raw"
    /\ Commit(p,
          IF ResponseOk(status) THEN WithContent([proc[p] EXCEPT !.rawIdx = 0], page)
          ELSE IF proc[p].rawIdx < 3
          THEN [proc[p] EXCEPT !.rawIdx = proc[p].rawIdx + 1]
          ELSE WithContent([proc[p] EXCEPT !.rawIdx = 0], NoContent))
    /\ UNCHANGED <<now, appId, privateKey, installationId, cachedToken, notGitHub>>

\* the Error with the status alone
TokenErrorStatusOnly(status) ==
    IF status = 0 THEN [message |-> "fetch failed", status |-> NoStatus, body |-> FALSE]
    ELSE [message |-> "Failed to get installation token", status |-> status, body |-> FALSE]

\* the Error getInstallationToken throws for a non-2xx response: status and body
TokenError(status) ==
    IF status = 0 THEN [message |-> "fetch failed", status |-> NoStatus, body |-> FALSE]
    ELSE [message |-> "Failed to get installation token", status |-> status, body |-> TRUE]

\* getInstallationToken after the token exchange settles, and githubRequest after it
TokenSettle(p, status) ==
    /\ proc[p].pc = "token"
    /\ IF ResponseOk(status)
       THEN /\ cachedToken' = CacheEntry(TokenResponse(now))
            /\ Commit(p, [proc[p] EXCEPT !.pc = "api", !.bearer = TokenResponse(now).token])
       ELSE /\ UNCHANGED cachedToken
            /\ Commit(p, [proc[p] EXCEPT !.pc = "done",
                             !.result = [success |-> FALSE, error |-> TokenError(status)]])
    /\ UNCHANGED <<now, appId, privateKey, installationId, notGitHub>>

\* if (!response.ok) throw ..., after each request k
AbortsExceptFile(k, status) == k # 3 /\ ~ResponseOk(status)
Aborts(k, status) == ~ResponseOk(status)

\* createSkillRequestPR after the response to request proc[p].step; file is what
\* a contents read of skills.json answers
ApiSettle(p, status, file) ==
    /\ proc[p].pc = "api"
    /\ LET k == proc[p].step
           pr == [proc[p] EXCEPT !.resp = Append(proc[p].resp, status), !.bearer = 0,
                                 !.created = IF k = 2 /\ ResponseOk(status)
                                             THEN Request(proc[p]).branch ELSE @,
                                 !.catalogData = IF k = 4 /\ ResponseOk(status)
                                                 THEN file ELSE @]
       IN Commit(p,
             IF Aborts(k, status)
             THEN [pr EXCEPT !.pc = "done",
                             !.result = [success |-> FALSE, error |-> StepError(k, status)]]
             ELSE IF k = Len(Requests)
             THEN [pr EXCEPT !.pc = "done", !.result = Success]
             ELSE GithubRequest([pr EXCEPT !.branch = IF k = 1 THEN now ELSE @], k + 1))
    /\ UNCHANGED <<now, appId, privateKey, installationId, cachedToken, notGitHub>>

\* the instants around the refresh of a token issued at 0: 5 min 1 s, 5 min and
\* 4 min 59 s before GitHub expires it
TokenInstants == {55 * Minute - Second, 55 * Minute, 55 * Minute + Second}

GitHubTick ==
    /\ \E t \in TokenInstants : t > now /\ now' = t
    /\ UNCHANGED <<githubVars, notGitHub>>

Credentials == {"", "set"}

InitGitHub ==
    /\ appId \in Credentials
    /\ privateKey \in Credentials
    /\ installationId \in Credentials
    /\ cachedToken = NoToken
    /\ proc = [p \in 1..MaxProcs |-> IdleProc]
    /\ reply = NoReply

----------------------------------------------------------------------------
(* SkillsManager and AgentsManager over their stores *)

\* the identifiers callers and catalogs supply: two slugs and a path that climbs
\* out of the store
Names == {<<"a">>, <<"a", "-", "b">>, <<".", ".", "/", "x">>}

\* the entries the served catalogs list, whatever the kind: id and path
CatalogEntries ==
    { [id |-> <<"a">>, path |-> <<"lib", "/", "a">>],
      [id |-> <<".", ".", "/", "x">>, path |-> <<"docs", "/", "x">>],
      [id |-> <<".", "/", "a">>, path |-> <<"lib", "/", "a">>] }

CatalogIds == {entry.id : entry \in CatalogEntries}

\* the path of the entry that find() returns; the path built from the id instead
EntryPathOfId(id) == id \o <<"/", "doc">>
EntryPath(id) == (CHOOSE entry \in CatalogEntries : entry.id = id).path

\* the documents a catalog entry's path, or the editor, may hold
Documents(mgr) ==
    IF mgr = "skills"
    THEN {SkillDocA, SkillDoc, SkillDocEmptyName, SkillDocNoDescription, PlainPage}
    ELSE {AgentDoc, AgentDocEmptyDescription, AgentDocBad, PlainPage, NoContent}

\* a store entry: nothing, a skill directory without SKILL.md, or the document
Absent == <<<<"absent">>>>
DirOnly == <<<<"dir">>>>

IdleOp == [pc |-> "idle", mgr |-> "", name |-> "", id |-> <<>>, path |-> <<>>,
           content |-> NoContent]

NoOutcome == [mgr |-> "", name |-> "", id |-> <<>>, threw |-> FALSE, success |-> FALSE,
              error |-> "", value |-> <<>>, read |-> <<>>, status |-> NoStatus, ended |-> FALSE]

\* an operation ends: the caller has the result value, or the exception
Ended(o, threw, success, error) ==
    /\ op' = [op EXCEPT ![o] = IdleOp]
    /\ out' = [mgr |-> op[o].mgr, name |-> op[o].name, id |-> op[o].id, threw |-> threw,
               success |-> success, error |-> error, value |-> <<>>, read |-> <<>>, status |-> NoStatus, ended |-> TRUE]

\* the Skill record of a document stored in directory dir: parseSkillContent's
\* fields, then path and isGlobal
SkillRecord(doc, dir) ==
    [name |-> parseSkillContent(doc).name, description |-> parseSkillContent(doc).description,
     path |-> dir, isGlobal |-> TRUE]

\* the Agent record of a document stored in file <file>.md: parseAgentContent's
\* fields, then name, path and isGlobal
AgentRecord(doc, file) ==
    [name |-> file, description |-> parseAgentContent(doc).description,
     mode |-> parseAgentContent(doc).mode, model |-> parseAgentContent(doc).model,
     path |-> file, isGlobal |-> TRUE]

\* an operation returns the failure of a request: a rejected fetch, or the
\* message with the response's status
EndedRequest(o, message, status) ==
    /\ op' = [op EXCEPT ![o] = IdleOp]
    /\ out' = [mgr |-> op[o].mgr, name |-> op[o].name, id |-> op[o].id, threw |-> FALSE,
               success |-> FALSE, error |-> IF status = 0 THEN "fetch failed" ELSE message,
               value |-> <<>>, read |-> <<>>,
               status |-> IF status = 0 THEN NoStatus ELSE status, ended |-> TRUE]

\* an operation returns success with its record
EndedWith(o, record) ==
    /\ op' = [op EXCEPT ![o] = IdleOp]
    /\ out' = [mgr |-> op[o].mgr, name |-> op[o].name, id |-> op[o].id, threw |-> FALSE,
               success |-> TRUE, error |-> "", value |-> <<record>>, read |-> <<>>,
               status |-> NoStatus, ended |-> TRUE]

Begun(o, mgr, name, id) == [pc |-> "idle", mgr |-> mgr, name |-> name, id |-> id,
                            path |-> <<>>, content |-> NoContent]

\* the slug test at the head of an operation, where it has one
Validates(mgr, name) == ~(mgr = "agents" /\ name = "installFromCatalog")

NotFoundMessage(mgr) == IF mgr = "skills" THEN "Skill not found: id" ELSE "Agent not found: id"

\* installFromCatalog(id): the slug test (SkillsManager only), then
\* catalog.fetchKContent(id) up to its first await: fetchK() from the cache and
\* the find, or the catalog request
installFromCatalog(o, mgr, id) ==
    /\ op[o].pc = "idle"
    /\ LET K == mgr
           me == Begun(o, mgr, "installFromCatalog", id)
       IN
       IF Validates(mgr, "installFromCatalog") /\ ~isValidSlug(id)
       THEN /\ op' = [op EXCEPT ![o] = IdleOp]
            /\ out' = [mgr |-> mgr, name |-> "installFromCatalog", id |-> id,
                       threw |-> FALSE, success |-> FALSE,
                       error |-> "Invalid skill ID format", value |-> <<>>, read |-> <<>>, status |-> NoStatus, ended |-> TRUE]
       ELSE IF CacheFresh(K, FALSE)
       THEN IF id \in CatalogIds
            THEN /\ op' = [op EXCEPT ![o] = [me EXCEPT !.pc = "content",
                                                      !.path = EntryPath(id)]]
                 /\ UNCHANGED out
            ELSE /\ op' = [op EXCEPT ![o] = IdleOp]
                 /\ out' = [mgr |-> mgr, name |-> "installFromCatalog", id |-> id,
                            threw |-> FALSE, success |-> FALSE,
                            error |-> NotFoundMessage(mgr), value |-> <<>>, read |-> <<>>, status |-> NoStatus, ended |-> TRUE]
       ELSE /\ op' = [op EXCEPT ![o] = [me EXCEPT !.pc = "catalog"]]
            /\ UNCHANGED out
    /\ UNCHANGED <<now, skillsCache, mcpCache, agentsCache, cacheExpiry, call, ret,
                   githubVars, probe, mcpVars, skillsDir, agentsDir>>

\* fetchK() inside fetchKContent settles: the list (fresh, or the cached one on
\* failure) and the find, or the error, which installFromCatalog catches
CatalogSettle(o, status) ==
    /\ op[o].pc = "catalog"
    /\ LET K == op[o].mgr IN
       /\ IF ResponseOk(status)
          THEN StoreSnapshot(K, Snapshot(K, now))
          ELSE UNCHANGED <<skillsCache, mcpCache, agentsCache, cacheExpiry>>
       /\ IF ~ResponseOk(status) /\ Fallback(K) = Null
          THEN EndedRequest(o, IF K = "skills" THEN "Failed to fetch skills catalog"
                                  ELSE "Failed to fetch agents catalog", status)
          ELSE IF op[o].id \in CatalogIds
          THEN /\ op' = [op EXCEPT ![o].pc = "content", ![o].path = EntryPath(op[o].id)]
               /\ UNCHANGED out
          ELSE Ended(o, FALSE, FALSE, NotFoundMessage(K))
    /\ UNCHANGED <<now, call, ret, githubVars, probe, mcpVars, skillsDir, agentsDir>>

\* the store entry join(globalAgentsDir, `${agentId}.md`) names: join drops a
\* leading "./"
ResolvedFile(id) == IF id = <<".", "/", "a">> THEN <<"a">> ELSE id

\* the checks installFromCatalog and saveAgent make on the document: "" when it
\* passes, else the error they return
DocumentErrorLast(mgr, content) ==
    IF mgr = "skills"
    THEN IF parseSkillContent(content) = NoSkill
         THEN "Invalid SKILL.md format: missing required frontmatter" ELSE ""
    ELSE IF content = NoContent THEN "Failed to fetch agent content from catalog"
    ELSE IF validateAgentContent(content) # <<>>
    THEN validateAgentContent(content)[Len(validateAgentContent(content))].message
    ELSE IF parseAgentContent(content) = NoAgent THEN "Invalid agent format"
    ELSE ""
DocumentError(mgr, content) ==
    IF mgr = "skills"
    THEN IF parseSkillContent(content) = NoSkill
         THEN "Invalid SKILL.md format: missing required frontmatter" ELSE ""
    ELSE IF content = NoContent THEN "Failed to fetch agent content from catalog"
    ELSE IF validateAgentContent(content) # <<>> THEN validateAgentContent(content)[1].message
    ELSE IF parseAgentContent(content) = NoAgent THEN "Invalid agent format"
    ELSE ""

\* the verdicts on the documents a content request may return
DocumentErrors ==
    [mgr \in {"skills", "agents"} |-> [page \in Documents(mgr) |-> DocumentError(mgr, page)]]

\* the fetch of the entry's path settles: the document is checked, then written
\* (agents: mkdir of the store and writeFile) or its directory made (skills)
ContentSettle(o, status, page, io) ==
    /\ op[o].pc = "content"
    /\ page \in Documents(op[o].mgr)
    /\ IF ~ResponseOk(status)
       THEN /\ EndedRequest(o, IF op[o].mgr = "skills" THEN "Failed to fetch skill content"
                                  ELSE "Failed to fetch agent content", status)
            /\ UNCHANGED <<skillsDir, agentsDir>>
       ELSE IF DocumentErrors[op[o].mgr][page] # ""
       THEN /\ Ended(o, FALSE, FALSE, DocumentErrors[op[o].mgr][page])
            /\ UNCHANGED <<skillsDir, agentsDir>>
       ELSE IF ~io
       THEN /\ Ended(o, FALSE, FALSE, "EACCES")
            /\ UNCHANGED <<skillsDir, agentsDir>>
       ELSE IF op[o].mgr = "skills"
       THEN /\ skillsDir' = [skillsDir EXCEPT ![op[o].id] =
                                IF @ = Absent THEN DirOnly ELSE @]
            /\ op' = [op EXCEPT ![o].pc = "write", ![o].content = page]
            /\ UNCHANGED <<agentsDir, out>>
       ELSE /\ agentsDir' = [agentsDir EXCEPT ![ResolvedFile(op[o].id)] = page]
            /\ EndedWith(o, AgentRecord(page, op[o].id))
            /\ UNCHANGED skillsDir
    /\ UNCHANGED <<now, catalogVars, githubVars, probe, mcpVars>>

\* SkillsManager.installFromCatalog: writeFile of SKILL.md settles
WriteSettle(o, io) ==
    /\ op[o].pc = "write"
    /\ IF io /\ skillsDir[op[o].id] # Absent
       THEN /\ skillsDir' = [skillsDir EXCEPT ![op[o].id] = op[o].content]
            /\ EndedWith(o, SkillRecord(op[o].content, op[o].id))
       ELSE /\ Ended(o, FALSE, FALSE, IF io THEN "ENOENT" ELSE "EACCES")
            /\ UNCHANGED skillsDir
    /\ UNCHANGED <<now, catalogVars, githubVars, probe, mcpVars, agentsDir>>

\* AgentsManager.saveAgent(name, content)
saveAgent(o, name, content, io) ==
    /\ op[o].pc = "idle"
    /\ LET result(success, error) ==
              [mgr |-> "agents", name |-> "saveAgent", id |-> name, threw |-> FALSE,
               success |-> success, error |-> error,
               value |-> IF success THEN <<AgentRecord(content, name)>> ELSE <<>>,
               read |-> <<>>, status |-> NoStatus, ended |-> TRUE]
       IN
       IF Validates("agents", "saveAgent") /\ ~isValidSlug(name)
       THEN /\ out' = result(FALSE, "Invalid agent name. Use lowercase letters, numbers, and hyphens only.")
            /\ UNCHANGED agentsDir
       ELSE IF validateAgentContent(content) # <<>>
       THEN /\ out' = result(FALSE, validateAgentContent(content)[1].message)
            /\ UNCHANGED agentsDir
       ELSE IF parseAgentContent(content) = NoAgent
       THEN /\ out' = result(FALSE, "Invalid agent format")
            /\ UNCHANGED agentsDir
       ELSE IF ~io
       THEN /\ out' = result(FALSE, "EACCES")
            /\ UNCHANGED agentsDir
       ELSE /\ agentsDir' = [agentsDir EXCEPT ![name] = content]
            /\ out' = result(TRUE, "")
    /\ UNCHANGED <<now, catalogVars, githubVars, probe, mcpVars, skillsDir, op>>

\* remove(name) up to its first await: the slug test, thrown to the caller
remove(o, mgr, name) ==
    /\ op[o].pc = "idle"
    /\ IF Validates(mgr, "remove") /\ ~isValidSlug(name)
       THEN /\ op' = [op EXCEPT ![o] = IdleOp]
            /\ out' = [mgr |-> mgr, name |-> "remove", id |-> name, threw |-> TRUE,
                       success |-> FALSE,
                       error |-> IF mgr = "skills" THEN "Invalid skill name"
                                 ELSE "Invalid agent name",
                       value |-> <<>>, read |-> <<>>, status |-> NoStatus, ended |-> TRUE]
       ELSE /\ op' = [op EXCEPT ![o] = [Begun(o, mgr, "remove", name) EXCEPT !.pc = "stat"]]
            /\ UNCHANGED out
    /\ UNCHANGED <<now, catalogVars, githubVars, probe, mcpVars, skillsDir, agentsDir>>

\* stat of the skill's directory instead of its SKILL.md
HasFileDirectory(mgr, name) ==
    IF mgr = "skills" THEN skillsDir[name] # Absent ELSE agentsDir[name] # Absent

\* is the canonical file there: SKILL.md in the skill's directory, <name>.md
HasFile(mgr, name) ==
    IF mgr = "skills" THEN skillsDir[name] \notin {Absent, DirOnly}
    ELSE agentsDir[name] # Absent

\* remove: stat settles; a missing file is thrown as not found
StatSettle(o) ==
    /\ op[o].pc = "stat"
    /\ IF HasFile(op[o].mgr, op[o].id)
       THEN /\ op' = [op EXCEPT ![o].pc = "rm"]
            /\ UNCHANGED out
       ELSE Ended(o, TRUE, FALSE,
                  IF op[o].mgr = "skills" THEN "Skill not found" ELSE "Agent not found")
    /\ UNCHANGED <<now, catalogVars, githubVars, probe, mcpVars, skillsDir, agentsDir>>

\* remove: rm settles; its failure is thrown too
RmSettle(o, io) ==
    /\ op[o].pc = "rm"
    /\ LET there == IF op[o].mgr = "skills" THEN skillsDir[op[o].id] # Absent
                    ELSE agentsDir[op[o].id] # Absent
       IN
       IF io /\ there
       THEN /\ skillsDir' = IF op[o].mgr = "skills"
                            THEN [skillsDir EXCEPT ![op[o].id] = Absent] ELSE skillsDir
            /\ agentsDir' = IF op[o].mgr = "agents"
                            THEN [agentsDir EXCEPT ![op[o].id] = Absent] ELSE agentsDir
            /\ Ended(o, FALSE, TRUE, "")
       ELSE /\ Ended(o, TRUE, FALSE, IF io THEN "ENOENT" ELSE "EACCES")
            /\ UNCHANGED <<skillsDir, agentsDir>>
    /\ UNCHANGED <<now, catalogVars, githubVars, probe, mcpVars>>

\* the names getSkillContent and getAgentContent are asked for: also a slug with
\* a trailing separator
RequestNames == Names \cup {<<"a", "/">>}

\* the store entry join(globalSkillsDir, name) resolves to
Resolved(name) == IF name = <<"a", "/">> THEN <<"a">> ELSE name

\* readFile's result, null when it throws
NullContent == <<<<"null">>>>
ReadFile(entry) == IF entry \in {Absent, DirOnly} THEN NullContent ELSE entry

\* getSkillContent(name) and getAgentContent(name): the slug test where the code
\* has one, then the file is read
GetValidates(mgr) == mgr = "agents"

getContent(o, mgr, name) ==
    /\ op[o].pc = "idle"
    /\ LET result(path, content) ==
              [mgr |-> mgr, name |-> "getContent", id |-> name, threw |-> FALSE,
               success |-> content # NullContent, error |-> "", value |-> content,
               read |-> path, status |-> NoStatus, ended |-> TRUE]
       IN
       IF GetValidates(mgr) /\ ~isValidSlug(name)
       THEN out' = result(<<>>, NullContent)
       ELSE IF mgr = "skills"
       THEN out' = result(<<Resolved(name)>>, ReadFile(skillsDir[Resolved(name)]))
       ELSE out' = result(<<name>>, ReadFile(agentsDir[name]))
    /\ UNCHANGED <<now, catalogVars, githubVars, probe, mcpVars, skillsDir, agentsDir, op>>

\* the order readdir gives the entries in
NameOrder == << <<".", ".", "/", "x">>, <<"a">>, <<"a", "-", "b">> >>

\* listInstalled of the skills: a directory is listed when its SKILL.md reads and parses
IsListedSkillFilesOnly(entry) == FALSE
IsListedSkill(entry) ==
    entry \notin {Absent, DirOnly} /\ parseSkillContent(entry) # NoSkill

\* listInstalled of the agents: a file of the store directory whose name ends in
\* .md is listed when it reads and parses
IsListedAgent(name, entry) ==
    /\ \A i \in 1..Len(name) : name[i] # "/"
    /\ entry # Absent /\ parseAgentContent(entry) # NoAgent

RECURSIVE Listing(_, _)
Listing(mgr, names) ==
    IF names = <<>> THEN <<>>
    ELSE LET n == Head(names) IN
         (IF mgr = "skills"
          THEN IF IsListedSkill(skillsDir[n]) THEN <<SkillRecord(skillsDir[n], n)>> ELSE <<>>
          ELSE IF IsListedAgent(n, agentsDir[n]) THEN <<AgentRecord(agentsDir[n], n)>> ELSE <<>>)
         \o Listing(mgr, Tail(names))

\* listInstalled(): the records of the store's entries
listInstalled(o, mgr) ==
    /\ op[o].pc = "idle"
    /\ out' = [mgr |-> mgr, name |-> "listInstalled", id |-> <<>>, threw |-> FALSE,
               success |-> TRUE, error |-> "", value |-> Listing(mgr, NameOrder),
               read |-> <<>>, status |-> NoStatus, ended |-> TRUE]
    /\ UNCHANGED <<now, catalogVars, githubVars, probe, mcpVars, skillsDir, agentsDir, op>>

InitManagers ==
    /\ skillsDir = [n \in Names |-> Absent]
    /\ agentsDir = [n \in Names |-> Absent]
    /\ op = <<IdleOp>>
    /\ out = NoOutcome

----------------------------------------------------------------------------
(* McpManager over the mcp map of the shared JSON configuration *)

\* the server ids the map is keyed by
McpIds == {"ctx", "fs"}

\* no entry under an id
NoServer == [type |-> "none", url |-> "", command |-> <<>>, enabled |-> "none"]

\* McpServerConfig values: a remote server with its url or a local one with its
\* command, the enabled field true, false or left out
ServerConfigs ==
    {[type |-> "remote", url |-> "https://ctx", command |-> <<>>, enabled |-> e] :
        e \in {"true", "false", "undefined"}}
    \cup
    {[type |-> "local", url |-> "", command |-> <<"npx", "fs">>, enabled |-> e] :
        e \in {"true", "false", "undefined"}}

\* ConfigManager.readGlobal().mcp || {}
readGlobal == mcp

\* ConfigManager.addMcpServer: the entry of id becomes config
addMcpServer(id, config) == [mcp EXCEPT ![id] = config]

\* ConfigManager.removeMcpServer: the entry of id is deleted
removeMcpServer(id) == [mcp EXCEPT ![id] = NoServer]

\* ConfigManager.setMcpEnabled: the enabled field of the entry of id, when there is one
setMcpEnabled(id, enabled) ==
    IF mcp[id] = NoServer THEN mcp
    ELSE [mcp EXCEPT ![id].enabled = IF enabled THEN "true" ELSE "false"]

\* { ...serverConfig, enabled: true }
InstalledConfigAsGiven(serverConfig) == serverConfig
InstalledConfig(serverConfig) == [serverConfig EXCEPT !.enabled = "true"]

\* enabled: serverConfig.enabled !== false
ListedEnabledOnlyTrue(serverConfig) == serverConfig.enabled = "true"
ListedEnabled(serverConfig) == serverConfig.enabled # "false"

\* the InstalledMcp records listInstalled makes of a map
InstalledMcps(servers) ==
    {[id |-> id, name |-> id, type |-> servers[id].type,
      enabled |-> ListedEnabled(servers[id]),
      url |-> servers[id].url, command |-> servers[id].command] :
        id \in {i \in McpIds : servers[i] # NoServer}}

NoMcpOut == [call |-> "", id |-> "", config |-> NoServer, enabled |-> FALSE,
             success |-> FALSE, threw |-> FALSE, list |-> {}]

\* McpManager.install(serverId, serverConfig); io: the configuration could be written
McpInstall(serverId, serverConfig, io) ==
    /\ mcp' = IF io THEN addMcpServer(serverId, InstalledConfig(serverConfig)) ELSE mcp
    /\ mcpOut' = [NoMcpOut EXCEPT !.call = "install", !.id = serverId,
                                  !.config = serverConfig, !.success = io]
    /\ UNCHANGED <<now, catalogVars, githubVars, managerVars, probe>>

\* McpManager.listInstalled()
McpListInstalled ==
    /\ mcpOut' = [NoMcpOut EXCEPT !.call = "listInstalled", !.success = TRUE,
                                  !.list = InstalledMcps(readGlobal)]
    /\ UNCHANGED <<now, catalogVars, githubVars, managerVars, probe, mcp>>

\* McpManager.remove(serverId); an error of the configuration manager escapes
McpRemove(serverId, io) ==
    /\ mcp' = IF io THEN removeMcpServer(serverId) ELSE mcp
    /\ mcpOut' = [NoMcpOut EXCEPT !.call = "remove", !.id = serverId, !.success = io,
                                  !.threw = ~io]
    /\ UNCHANGED <<now, catalogVars, githubVars, managerVars, probe>>

\* McpManager.toggleEnabled(serverId, enabled); an error of the configuration
\* manager escapes
McpToggleEnabled(serverId, enabled, io) ==
    /\ mcp' = IF io THEN setMcpEnabled(serverId, enabled) ELSE mcp
    /\ mcpOut' = [NoMcpOut EXCEPT !.call = "toggleEnabled", !.id = serverId,
                                  !.enabled = enabled, !.success = io, !.threw = ~io]
    /\ UNCHANGED <<now, catalogVars, githubVars, managerVars, probe>>

\* a new configuration has no mcp map
InitMcp ==
    /\ mcp = [id \in McpIds |-> NoServer]
    /\ mcpOut = NoMcpOut

----------------------------------------------------------------------------
(* The pure functions, applied to inputs of bounded size *)

NoProbe == [fn |-> "", arg |-> <<>>, result |-> <<>>, done |-> FALSE]

\* the characters the slug test is tried on: a letter, a digit, the hyphen, a
\* capital and the underscore
SlugAlphabet == {"a", "1", "-", "A", "_"}

\* the identifiers the documentation names
SlugSamples ==
    { <<"m", "y", "-", "s", "k", "i", "l", "l", "-", "1">>,
      <<"M", "y", "_", "S", "k", "i", "l", "l">>,
      <<"-", "s", "k", "i", "l", "l">>,
      <<"s", "k", "i", "l", "l", "-">>,
      <<"s", "k", "i", "l", "l", "-", "-", "x">> }

SlugInputs == SlugSamples \cup UNION {[1..n -> SlugAlphabet] : n \in 0..MaxSlugLen}

\* /^[a-z0-9]+(-[a-z0-9]+)*$/.test(str), as every manager operation calls it
TestSlug ==
    /\ probe.fn = "isValidSlug" /\ ~probe.done
    /\ probe' = [probe EXCEPT !.result = <<isValidSlug(probe.arg)>>, !.done = TRUE]
    /\ UNCHANGED <<now, catalogVars, githubVars, managerVars, mcpVars>>

\* the agent documents validateAgentContent is tried on, by what they hold: the
\* delimiters, and for each key no line, a line without value, or a value
AgentShapes ==
    [block : {"closed", "open", "none"},
     description : {"missing", "empty", "blank", "d", "w200", "w201"},
     mode : {"missing", "primary", "subagent", "all", "boss"},
     model : {"missing", "a/b", "gpt"},
     temperature : {"missing", "0.0", "0.5", "1.0", "1.1", "1.5", "-0.5", "hot"}]

KeyLine(key, choice) ==
    CASE choice = "missing" -> <<>>
      [] choice = "empty"   -> << <<key>> >>
      [] choice = "blank"   -> << <<key, " ">> >>
      [] OTHER              -> << <<key, " ", choice>> >>

\* the document of a shape: the keys in the order description, mode, model, temperature
AgentDocumentOf(shape) ==
    (IF shape.block = "none" THEN <<>> ELSE << <<"---">> >>)
    \o KeyLine("description:", shape.description) \o KeyLine("mode:", shape.mode)
    \o KeyLine("model:", shape.model) \o KeyLine("temperature:", shape.temperature)
    \o (IF shape.block = "closed" THEN << <<"---">> >> ELSE <<>>)
    \o << <<"boss">> >>

\* validateAgentContent(content), as the editor and the managers call it
Validate ==
    /\ probe.fn = "validateAgentContent" /\ ~probe.done
    /\ probe' = [probe EXCEPT !.result = validateAgentContent(AgentDocumentOf(probe.arg)),
                              !.done = TRUE]
    /\ UNCHANGED <<now, catalogVars, githubVars, managerVars, mcpVars>>

\* the documents the parsers are tried on, by what they hold: a closed block with
\* for name and description no line, a line without value, or a value, and a body
\* that is plain text or has key lines of its own
ParseShapes ==
    [name : {"missing", "empty", "blank", "x"},
     description : {"missing", "empty", "blank", "code"},
     body : {"plain", "keys"}]

ParseDocumentOf(shape) ==
    << <<"---">> >>
    \o KeyLine("name:", shape.name) \o KeyLine("description:", shape.description)
    \o << <<"---">> >>
    \o (IF shape.body = "keys"
        THEN << <<"name:", " ", "x">>, <<"description:", " ", "d">> >>
        ELSE << <<"boss">> >>)

\* parseSkillContent(content, name) and parseAgentContent(content, name), as the
\* managers call them
Parse ==
    /\ probe.fn \in {"parseSkillContent", "parseAgentContent"} /\ ~probe.done
    /\ probe' = [probe EXCEPT
                    !.result = IF probe.fn = "parseSkillContent"
                               THEN <<parseSkillContent(ParseDocumentOf(probe.arg))>>
                               ELSE <<parseAgentContent(ParseDocumentOf(probe.arg))>>,
                    !.done = TRUE]
    /\ UNCHANGED <<now, catalogVars, githubVars, managerVars, mcpVars>>

\* the descriptions the index entry is made of: a text of every length up to
\* MaxTextLen, character by character
Text(n) == [i \in 1..n |-> "d"]

\* text.slice(0, n)
Slice(text, n) == SubSeq(text, 1, IF n < Len(text) THEN n ELSE Len(text))

Ellipsis == <<".", ".", ".">>

\* the entry createSkillRequestPR pushes onto catalogContent.skills: id, name,
\* description and path (the other fields are fixed strings and the date)
IndexEntryUncut(skillName, skillDescription) ==
    [id |-> skillName,
     name |-> IF Len(skillDescription) > 64
              THEN Slice(skillDescription, 64) \o Ellipsis ELSE skillDescription,
     description |-> IF Len(skillDescription) > 200
                     THEN Slice(skillDescription, 200) \o Ellipsis ELSE skillDescription,
     path |-> SkillFilePath(skillName)]
IndexEntry(skillName, skillDescription) ==
    [id |-> skillName,
     name |-> IF Len(skillDescription) > 64
              THEN Slice(skillDescription, 61) \o Ellipsis ELSE skillDescription,
     description |-> IF Len(skillDescription) > 200
                     THEN Slice(skillDescription, 197) \o Ellipsis ELSE skillDescription,
     path |-> SkillFilePath(skillName)]

\* the push of step 4, for a slug and a description
MakeEntry ==
    /\ probe.fn = "indexEntry" /\ ~probe.done
    /\ probe' = [probe EXCEPT
                    !.result = <<IndexEntry(probe.arg.skillName, probe.arg.skillDescription)>>,
                    !.done = TRUE]
    /\ UNCHANGED <<now, catalogVars, githubVars, managerVars, mcpVars>>

\* the calls to make, each with its argument
EntryProbes ==
    {[fn |-> "indexEntry", arg |-> [skillName |-> slug, skillDescription |-> Text(n)],
      result |-> <<>>, done |-> FALSE] :
        slug \in {<<"a">>, <<"a", "-", "b">>}, n \in 0..MaxTextLen}
ParseProbes ==
    {[fn |-> fn, arg |-> shape, result |-> <<>>, done |-> FALSE] :
        fn \in {"parseSkillContent", "parseAgentContent"}, shape \in ParseShapes}
SlugProbes ==
    {[fn |-> "isValidSlug", arg |-> str, result |-> <<>>, done |-> FALSE] : str \in SlugInputs}
ValidateProbes ==
    {[fn |-> "validateAgentContent", arg |-> shape, result |-> <<>>, done |-> FALSE] :
        shape \in AgentShapes}

vars == <<now, skillsCache, mcpCache, agentsCache, cacheExpiry, call, ret,
          appId, privateKey, installationId, cachedToken, proc, reply,
          skillsDir, agentsDir, op, out, probe, mcp, mcpOut>>

Init ==
    /\ now = 0
    /\ InitCatalog
    /\ InitGitHub
    /\ InitManagers
    /\ InitMcp
    /\ probe = NoProbe

NextCatalog ==
    \/ \E c \in 1..MaxCalls, K \in Kinds, force \in BOOLEAN : FetchCall(c, K, force)
    \/ \E c \in 1..MaxCalls, status \in CatalogStatuses : FetchSettle(c, status)
    \/ clearCache
    \/ CatalogTick

\* a fresh AgencyCatalog in a process with no request and no manager operation
\* in progress; the stores this specification leaves out are empty maps
InitCatalogAlone ==
    /\ now = 0
    /\ InitCatalog
    /\ appId = "set" /\ privateKey = "set" /\ installationId = "set"
    /\ cachedToken = NoToken /\ proc = <<>> /\ reply = NoReply
    /\ skillsDir = <<>> /\ agentsDir = <<>>
    /\ op = <<>> /\ out = NoOutcome
    /\ mcp = <<>> /\ mcpOut = NoMcpOut
    /\ probe = NoProbe

\* the catalog client alone, under overlapping fetches
SpecCatalog == InitCatalogAlone /\ [][NextCatalog]_vars

\* a URL that passes every check of requestSkill
GoodUrl == [valid |-> TRUE, hostname |-> "skills.sh", parts |-> <<"o", "r", <<"a", "-", "b">>>>]

\* overlapping skill requests on one configured GitHubAppService whose every
\* response is a 200; refusals are NextRequest's
\* a configured GitHubAppService in a process with no catalog fetch and no
\* manager operation in progress; the stores this specification leaves out are
\* empty maps
InitGitHubAlone ==
    /\ now = 0
    /\ skillsCache = Null /\ mcpCache = Null /\ agentsCache = Null /\ cacheExpiry = 0
    /\ call = <<>> /\ ret = NoReturn
    /\ appId = "set" /\ privateKey = "set" /\ installationId = "set"
    /\ cachedToken = NoToken /\ proc = [p \in 1..MaxProcs |-> IdleProc] /\ reply = NoReply
    /\ skillsDir = <<>> /\ agentsDir = <<>>
    /\ op = <<>> /\ out = NoOutcome
    /\ mcp = <<>> /\ mcpOut = NoMcpOut
    /\ probe = NoProbe

NextGitHub ==
    \/ \E p \in 1..MaxProcs : requestSkill(p, GoodUrl)
    \/ \E p \in 1..MaxProcs : SkillsShSettle(p, 200, SkillDoc)
    \/ \E p \in 1..MaxProcs : TokenSettle(p, 200)
    \/ \E p \in 1..MaxProcs : ApiSettle(p, 200, IndexFile)
    \/ GitHubTick

SpecGitHub == InitGitHubAlone /\ [][NextGitHub]_vars

\* one skill request at a time, with any credentials, URL, page and status
NextRequest ==
    \/ \E url \in Urls : requestSkill(1, url)
    \/ \E status \in PageStatuses, page \in Pages : SkillsShSettle(1, status, page)
    \/ \E status \in PageStatuses, page \in Pages : RawSettle(1, status, page)
    \/ \E status \in ApiStatuses : TokenSettle(1, status)
    \/ \E status \in ApiStatuses : ApiSettle(1, status, IndexFile)
    \/ GitHubTick

SpecRequest == Init /\ [][NextRequest]_vars

\* what skills.json may hold on the request branch: nothing, another skill, or
\* that and the skill a-b, under either blob sha
IndexFiles ==
    {[sha |-> h, skills |-> k] :
        h \in {"s1", "s2"},
        k \in {<<>>,
               <<[id |-> <<"x">>, path |-> <<"lib", "/", "x">>]>>,
               <<[id |-> <<"x">>, path |-> <<"lib", "/", "x">>],
                 [id |-> <<"a", "-", "b">>, path |-> <<"lib", "/", "a", "-", "b">>]>>}}

WorkflowUrls ==
    {GoodUrl, [valid |-> TRUE, hostname |-> "skills.sh", parts |-> <<"o", "r", <<"a">>>>]}

\* the pull-request workflow of overlapping requests, with the repository API
\* answering 200 or 422 and any skills.json in the answer to the index read
NextWorkflow ==
    \/ \E p \in 1..MaxProcs, url \in WorkflowUrls : requestSkill(p, url)
    \/ \E p \in 1..MaxProcs : SkillsShSettle(p, 200, SkillDoc)
    \/ \E p \in 1..MaxProcs : TokenSettle(p, 200)
    \/ \E p \in 1..MaxProcs, status \in {200, 422} :
          \E file \in IF proc[p].step = 4 /\ status = 200 THEN IndexFiles ELSE {NoFile} :
              ApiSettle(p, status, file)

SpecWorkflow == InitGitHubAlone /\ [][NextWorkflow]_vars

\* the managers, one operation at a time, over the catalog client
\* the identifiers concurrent calls are made with: two slugs and a catalog id
\* that is no slug
ConcurrentIds == {<<"a">>, <<"a", "-", "b">>, <<".", "/", "a">>}

\* the identifiers of the calls in progress
InProgress == {op[o].id : o \in {q \in 1..MaxOps : op[q].pc # "idle"}}

\* the managers with MaxOps calls that may overlap
InitConcurrent ==
    /\ now = 0
    /\ skillsCache = Null /\ mcpCache = Null /\ agentsCache = Null /\ cacheExpiry = 0
    /\ call = <<>> /\ ret = NoReturn
    /\ appId = "set" /\ privateKey = "set" /\ installationId = "set"
    /\ cachedToken = NoToken /\ proc = <<>> /\ reply = NoReply
    /\ skillsDir = [n \in Names |-> Absent] /\ agentsDir = [n \in Names |-> Absent]
    /\ op = [o \in 1..MaxOps |-> IdleOp] /\ out = NoOutcome
    /\ mcp = <<>> /\ mcpOut = NoMcpOut
    /\ probe = NoProbe

\* calls on pairwise different identifiers, every response a success
NextConcurrent ==
    \/ \E o \in 1..MaxOps, mgr \in {"skills", "agents"}, id \in ConcurrentIds \ InProgress :
          installFromCatalog(o, mgr, id)
    \/ \E o \in 1..MaxOps : CatalogSettle(o, 200)
    \/ \E o \in 1..MaxOps, page \in {SkillDoc, AgentDoc} : ContentSettle(o, 200, page, TRUE)
    \/ \E o \in 1..MaxOps : WriteSettle(o, TRUE)
    \/ \E o \in 1..MaxOps, name \in ConcurrentIds \ InProgress :
          saveAgent(o, name, AgentDoc, TRUE)
    \/ \E o \in 1..MaxOps, mgr \in {"skills", "agents"}, name \in ConcurrentIds \ InProgress :
          remove(o, mgr, name)
    \/ \E o \in 1..MaxOps : StatSettle(o)
    \/ \E o \in 1..MaxOps : RmSettle(o, TRUE)

SpecConcurrent == InitConcurrent /\ [][NextConcurrent]_vars

\* the managers over an empty store and a fresh catalog cache, in a process
\* with no request in progress
InitManagersAlone ==
    /\ now = 0
    /\ skillsCache = Null /\ mcpCache = Null /\ agentsCache = Null /\ cacheExpiry = 0
    /\ call = <<>> /\ ret = NoReturn
    /\ appId = "set" /\ privateKey = "set" /\ installationId = "set"
    /\ cachedToken = NoToken /\ proc = <<>> /\ reply = NoReply
    /\ InitManagers
    /\ InitMcp
    /\ probe = NoProbe

NextManagers ==
    \/ \E mgr \in {"skills", "agents"}, id \in Names : installFromCatalog(1, mgr, id)
    \/ \E status \in CatalogStatuses : CatalogSettle(1, status)
    \/ \E status \in CatalogStatuses, page \in Documents("skills") \cup Documents("agents"),
          io \in BOOLEAN :
          ContentSettle(1, status, page, io)
    \/ \E io \in BOOLEAN : WriteSettle(1, io)
    \/ \E name \in Names, content \in Documents("agents"), io \in BOOLEAN :
          saveAgent(1, name, content, io)
    \/ \E mgr \in {"skills", "agents"}, name \in Names : remove(1, mgr, name)
    \/ StatSettle(1)
    \/ \E io \in BOOLEAN : RmSettle(1, io)
    \/ \E mgr \in {"skills", "agents"}, name \in RequestNames : getContent(1, mgr, name)
    \/ \E mgr \in {"skills", "agents"} : listInstalled(1, mgr)

SpecManagers == InitManagersAlone /\ [][NextManagers]_vars

\* the configurations the MCP manager may find: any entries, written by this
\* manager or by hand
InitMcpStore ==
    /\ now = 0
    /\ InitCatalog
    /\ InitGitHub
    /\ appId = "set" /\ privateKey = "set" /\ installationId = "set"
    /\ InitManagers
    /\ probe = NoProbe
    /\ mcp \in [McpIds -> ServerConfigs \cup {NoServer}]
    /\ mcpOut = NoMcpOut

NextMcp ==
    \/ \E id \in McpIds, config \in ServerConfigs, io \in BOOLEAN : McpInstall(id, config, io)
    \/ McpListInstalled
    \/ \E id \in McpIds, io \in BOOLEAN : McpRemove(id, io)
    \/ \E id \in McpIds, enabled \in BOOLEAN, io \in BOOLEAN : McpToggleEnabled(id, enabled, io)

SpecMcp == InitMcpStore /\ [][NextMcp]_vars

\* the pure functions over their inputs
InitText ==
    /\ now = 0
    /\ InitCatalog
    /\ InitGitHub
    /\ appId = "set" /\ privateKey = "set" /\ installationId = "set"
    /\ InitManagers
    /\ InitMcp
    /\ \/ probe \in SlugProbes
       \/ probe \in ValidateProbes
       \/ probe \in EntryProbes
       \/ probe \in ParseProbes

NextText ==
    \/ TestSlug
    \/ Validate
    \/ MakeEntry
    \/ Parse

SpecText == InitText /\ [][NextText]_vars

----------------------------------------------------------------------------
(* Claims about AgencyCatalog *)

\* the call that settles in this step, if any
Settles(c) == call[c].pc = "awaiting" /\ call'[c].pc = "idle"

\* C1: when the network fetch of kind K fails (rejected or non-2xx) and the slot
\* of K holds a list, fetchK returns that list, expired or not, and raises no
\* error; when the slot is empty it propagates the error. For both forceRefresh.
C1_CacheFallback ==
    [][\A c \in 1..MaxCalls :
          (Settles(c) /\ ~(ret'.net >= 200 /\ ret'.net <= 299)) =>
              LET slot == CASE call[c].kind = "skills" -> skillsCache
                            [] call[c].kind = "mcp"    -> mcpCache
                            [] call[c].kind = "agents" -> agentsCache
              IN /\ ret'.kind = call[c].kind
                 /\ ret'.force = call[c].force
                 /\ IF slot # Null
                    THEN ~ret'.threw /\ ret'.result = slot
                    ELSE ret'.threw]_vars

\* a forced fetch failed with 404 after the expiry and returned the stale list
C1_Witness ==
    /\ ret.requested /\ ret.force /\ ret.net = 404
    /\ ~ret.threw /\ ret.result # Null
    /\ ret.at = now /\ now >= cacheExpiry /\ cacheExpiry > 0

\* C2: a fetchK that returns without its network fetch having failed returns a
\* list of kind K fetched less than the cache duration before.
C2_FreshSnapshot ==
    (ret.kind # "null" /\ ~(ret.requested /\ ~(ret.net >= 200 /\ ret.net <= 299))) =>
        /\ ret.result.kind = ret.kind
        /\ ret.at - ret.result.at < cacheDuration

\* C3: fetchK(false) with a list in the slot and now < cacheExpiry returns that
\* list and issues no request; with forceRefresh, an empty slot or
\* now >= cacheExpiry it always issues a request.
C3_CacheHitSkipsNetwork ==
    [][/\ \A c \in 1..MaxCalls :
            (call[c].pc = "idle" /\ call'[c].pc = "awaiting") =>
                LET K == call'[c].kind
                    slot == CASE K = "skills" -> skillsCache
                              [] K = "mcp"    -> mcpCache
                              [] K = "agents" -> agentsCache
                IN call'[c].force \/ slot = Null \/ now >= cacheExpiry
       /\ (call' = call /\ ret' # ret) =>
                LET K == ret'.kind
                    slot == CASE K = "skills" -> skillsCache
                              [] K = "mcp"    -> mcpCache
                              [] K = "agents" -> agentsCache
                IN /\ ~ret'.force /\ slot # Null /\ now < cacheExpiry
                   /\ ret'.result = slot /\ ~ret'.requested /\ ~ret'.threw]_vars

\* a cache hit has returned while a forced fetch of a fresh kind awaits the network
C3_Witness ==
    /\ ret.kind # "null" /\ ~ret.requested /\ ret.result # Null
    /\ \E c \in 1..MaxCalls :
          /\ call[c].pc = "awaiting" /\ call[c].force
          /\ Slot(call[c].kind) # Null /\ now < cacheExpiry

----------------------------------------------------------------------------
(* Claims about GitHubAppService and requestSkill *)

\* the instant at which GitHub expires a token (the token string is named by it)
ExpiresAtGitHub(token) == token

\* C4: getInstallationToken returns the cached token, with no token exchange,
\* exactly when a token is cached and now < (its expires_at - 5 min); otherwise it
\* exchanges a new JWT. So 4 min 59 s before expiry regenerates, 5 min 1 s reuses.
C4_TokenRefreshBoundary ==
    [][\A p \in 1..MaxProcs :
          (proc'[p].step = proc[p].step + 1) =>
              IF cachedToken # NoToken
                 /\ now < ExpiresAtGitHub(cachedToken.token) - 5 * Minute
              THEN proc'[p].pc = "api" /\ proc'[p].bearer = cachedToken.token
              ELSE proc'[p].pc = "token"]_vars

\* one invocation reused the cached token 5 min 1 s before its expiry, another
\* is exchanging a new one after a check 4 min 59 s before that expiry
C4_Witness ==
    /\ cachedToken # NoToken
    /\ \E p, q \in 1..MaxProcs :
          /\ proc[p].pc = "api" /\ proc[p].bearer = cachedToken.token
          /\ ExpiresAtGitHub(cachedToken.token) - proc[p].at = 5 * Minute + Second
          /\ proc[q].pc = "token"
          /\ ExpiresAtGitHub(cachedToken.token) - proc[q].at = 5 * Minute - Second

\* C5: token regenerations of concurrent calls never overlap: at most one
\* token-exchange request is in flight at any time.
C5_SingleRegeneration ==
    Cardinality({p \in 1..MaxProcs : proc[p].pc = "token"}) <= 1

\* C6: the requests of createSkillRequestPR go out in program order, each only
\* after every earlier one got a 2xx response; a non-2xx response is the last
\* one: no later request is issued and the call returns {success: false, error}.
C6_SequentialAbort ==
    /\ \A p \in 1..MaxProcs :
          proc[p].pc \in {"token", "api"} =>
              /\ Len(proc[p].resp) = proc[p].step - 1
              /\ \A i \in 1..Len(proc[p].resp) :
                    proc[p].resp[i] >= 200 /\ proc[p].resp[i] <= 299
    /\ reply.returned =>
          /\ \A i \in 1..Len(reply.resp) :
                ~(reply.resp[i] >= 200 /\ reply.resp[i] <= 299) =>
                    /\ i = Len(reply.resp)
                    /\ reply.issued = i
                    /\ ~reply.result.success
                    /\ reply.result.error # NoError
          /\ reply.result.success =>
                /\ reply.issued = Len(Requests)
                /\ Len(reply.resp) = Len(Requests)
          /\ Len(reply.resp) <= reply.issued

\* the file creation got a 422: three requests were issued, none after it
C6_Witness ==
    /\ reply.returned /\ ~reply.result.success
    /\ reply.resp = <<200, 200, 422>> /\ reply.issued = 3

\* C7: when a request of the workflow gets a non-2xx response with status s, the
\* error of the returned {success: false, error} carries s.
C7_ErrorCarriesStatus ==
    (reply.returned /\ reply.resp # <<>>) =>
        LET s == reply.resp[Len(reply.resp)] IN
        (s # 0 /\ ~(s >= 200 /\ s <= 299)) =>
            /\ ~reply.result.success
            /\ reply.result.error.status = s

\* the read of the base ref got a 404 and the error says so
C7_Witness ==
    /\ reply.returned /\ reply.resp = <<404>>
    /\ reply.result.error = [message |-> "Failed to get branch ref", status |-> 404,
                             body |-> FALSE]

\* C8: with any of appId, privateKey, installationId empty, requestSkill returns
\* the 'not configured' failure and issues no network request at all.
C8_UnconfiguredFailsFast ==
    (appId = "" \/ privateKey = "" \/ installationId = "") =>
        /\ \A p \in 1..MaxProcs : proc[p].pc = "idle"
        /\ reply.returned =>
              /\ reply.result =
                    Failure("Skill requests are not configured. Contact your administrator.")
              /\ ~reply.networked
              /\ reply.issued = 0

\* a request for a good URL returned 'not configured' with only the key missing
C8_Witness ==
    /\ appId = "set" /\ privateKey = "" /\ installationId = "set"
    /\ reply.returned /\ reply.url = GoodUrl
    /\ reply.result.error.message =
          "Skill requests are not configured. Contact your administrator."

----------------------------------------------------------------------------
(* Claims about the managers *)

\* C9: every public operation of the managers reports every failure as a
\* returned result value and never throws an exception to its caller.
C9_NeverThrows == out.ended => ~out.threw

\* C10: no file or directory whose name is not a slug is ever written or
\* deleted, and no operation is in its filesystem phase under such a name,
\* whatever ids the catalog contains.
C10_SlugBeforeAccess ==
    /\ \A n \in Names : (skillsDir[n] # Absent \/ agentsDir[n] # Absent) => isValidSlug(n)
    /\ \A o \in DOMAIN op : op[o].pc \in {"write", "stat", "rm"} => isValidSlug(op[o].id)

\* C11: getSkillContent and getAgentContent, asked for a name that is not a slug,
\* return null and read no file.
C11_GetContentRejectsNonSlug ==
    (out.ended /\ out.name = "getContent" /\ ~isValidSlug(out.id)) =>
        (out.value = NullContent /\ out.read = <<>>)

----------------------------------------------------------------------------
(* Claims about the pure functions *)

\* one or more non-empty runs of a-z and 0-9 joined by single hyphens
JoinedSegments(str) ==
    /\ str # <<>>
    /\ \A i \in 1..Len(str) : str[i] \in LowerAlnum \cup {"-"}
    /\ str[1] # "-" /\ str[Len(str)] # "-"
    /\ \A i \in 1..(Len(str) - 1) : ~(str[i] = "-" /\ str[i + 1] = "-")

\* C12: the slug check accepts exactly the non-empty strings made of non-empty
\* segments of a-z and 0-9 joined by single hyphens; "my-skill-1" is accepted,
\* "My_Skill", "-skill", "skill-", "skill--x" and "" are rejected.
C12_SlugCheck ==
    (probe.fn = "isValidSlug" /\ probe.done) =>
        /\ probe.result = <<JoinedSegments(probe.arg)>>
        /\ probe.arg = <<"m", "y", "-", "s", "k", "i", "l", "l", "-", "1">> => probe.result = <<TRUE>>
        /\ probe.arg \in (SlugSamples \ {<<"m", "y", "-", "s", "k", "i", "l", "l", "-", "1">>})
                         \cup {<<>>}
              => probe.result = <<FALSE>>

\* the test was applied to "skill--x" and rejected it
C12_Witness ==
    /\ probe.fn = "isValidSlug" /\ probe.done
    /\ probe.arg = <<"s", "k", "i", "l", "l", "-", "-", "x">>
    /\ probe.result = <<FALSE>>

----------------------------------------------------------------------------
(* Claims about the stored documents *)

\* the metadata block has a line that carries the key and a value after it
FieldOnLine(doc, key) ==
    \E i \in 2..(FrontmatterEnd(doc) - 1) :
        doc[i] # <<>> /\ doc[i][1] = key /\ Trim(Tail(doc[i])) # <<>>

ValidSkillDocument(doc) ==
    FrontmatterEnd(doc) # 0 /\ FieldOnLine(doc, "name:") /\ FieldOnLine(doc, "description:")

ValidAgentDocument(doc) ==
    /\ FrontmatterEnd(doc) # 0 /\ FieldOnLine(doc, "description:")
    /\ validateAgentContent(doc) = <<>>

\* C13: every document the managers have written to the store is valid: a skill
\* document has a metadata block with name and description, an agent document
\* one with a description and no validation error.
C13_StoredDocumentsValid ==
    \A n \in Names :
        /\ skillsDir[n] \notin {Absent, DirOnly} => ValidSkillDocument(skillsDir[n])
        /\ agentsDir[n] # Absent => ValidAgentDocument(agentsDir[n])

\* the value the block's first line with the key carries
Declared(doc, key) ==
    Trim(Tail(doc[CHOOSE i \in 2..(FrontmatterEnd(doc) - 1) :
                     /\ doc[i] # <<>> /\ doc[i][1] = key
                     /\ \A m \in 2..(i - 1) : ~(doc[m] # <<>> /\ doc[m][1] = key)]))

\* a stored skill document that declares the name of its directory
DeclaresOwnName(n) ==
    /\ skillsDir[n] \notin {Absent, DirOnly}
    /\ ValidSkillDocument(skillsDir[n])
    /\ Declared(skillsDir[n], "name:") = n

\* C14: a successful SkillsManager.installFromCatalog(id) stores the document at
\* <skills root>/<id>/SKILL.md; the entry then changes only by a remove or an
\* install of that id; and every listInstalled() contains, for an entry whose
\* document declares name = id and description d, the record
\* {name: id, description: d, isGlobal: true} with path <skills root>/<id>.
C14_ListAfterInstall ==
    [][ /\ \A n \in Names :
             (WriteSettle(1, TRUE) /\ op[1].id = n /\ out'.success)
                => skillsDir'[n] = op[1].content
        /\ \A n \in Names :
             (skillsDir[n] \notin {Absent, DirOnly} /\ skillsDir'[n] # skillsDir[n])
                => /\ op[1].id = n
                   /\ \/ op[1].name = "remove" /\ skillsDir'[n] = Absent
                      \/ op[1].name = "installFromCatalog"
        /\ listInstalled(1, "skills") =>
             \A n \in Names : DeclaresOwnName(n) =>
                \E i \in 1..Len(out'.value) :
                    out'.value[i] = [name |-> n,
                                     description |-> Declared(skillsDir[n], "description:"),
                                     path |-> n, isGlobal |-> TRUE]
      ]_vars

\* skill a is installed with a document that declares name a, and was listed
C14_Witness ==
    /\ skillsDir[<<"a">>] = SkillDocA
    /\ out.ended /\ out.mgr = "skills" /\ out.name = "listInstalled"
    /\ Len(out.value) >= 1

\* C15: every record returned by installFromCatalog, saveAgent or listInstalled
\* has the name of its storage location (the skill's directory, the agent's file
\* without .md), also when the document declares another name.
C15_NameOfLocation ==
    (out.ended /\ out.success /\ out.name \in {"installFromCatalog", "saveAgent", "listInstalled"})
        => \A i \in 1..Len(out.value) :
              /\ out.value[i].name = out.value[i].path
              /\ out.name # "listInstalled" => out.value[i].name = out.id

\* the resource's canonical file holds a document
CanonicalFile(mgr, n) ==
    IF mgr = "skills" THEN Len(skillsDir[n]) >= 3 ELSE Len(agentsDir[n]) >= 3

\* C16: remove(name) with a valid slug and no canonical file fails with a
\* not-found error and leaves the whole store unchanged; with an existing
\* resource it deletes exactly that resource's entry and leaves every other
\* resource unchanged.
C16_RemoveFrame ==
    [][ \A mgr \in {"skills", "agents"}, n \in Names :
          (op[1].name = "remove" /\ op[1].mgr = mgr /\ op[1].id = n /\ isValidSlug(n)) =>
             IF op'[1].pc # "idle" THEN UNCHANGED <<skillsDir, agentsDir>>
             ELSE IF ~CanonicalFile(mgr, n)
             THEN /\ out'.error = (IF mgr = "skills" THEN "Skill not found"
                                   ELSE "Agent not found")
                  /\ ~out'.success
                  /\ UNCHANGED <<skillsDir, agentsDir>>
             ELSE IF out'.error # ""
             THEN UNCHANGED <<skillsDir, agentsDir>>
             ELSE /\ out'.success
                  /\ \A m \in Names :
                        /\ skillsDir'[m] = IF mgr = "skills" /\ m = n THEN Absent
                                           ELSE skillsDir[m]
                        /\ agentsDir'[m] = IF mgr = "agents" /\ m = n THEN Absent
                                           ELSE agentsDir[m]
      ]_vars

\* agent a was removed while agent a-b and skill a stay installed
C16_Witness ==
    /\ out.ended /\ out.mgr = "agents" /\ out.name = "remove" /\ out.success
    /\ out.id = <<"a">> /\ agentsDir[<<"a">>] = Absent
    /\ agentsDir[<<"a", "-", "b">>] = AgentDoc
    /\ skillsDir[<<"a">>] = SkillDocA

----------------------------------------------------------------------------
(* Claims about validateAgentContent *)

\* the shape has a metadata block: both delimiters and a line between them
HasBlock(shape) ==
    /\ shape.block = "closed"
    /\ \E k \in {"description", "mode", "model", "temperature"} : shape[k] # "missing"

\* the rules a shape violates
DescriptionErrors(shape) ==
    IF shape.description \in {"missing", "empty", "blank"} THEN <<ErrDescRequired>>
    ELSE IF shape.description = "w201" THEN <<ErrDescLong>> ELSE <<>>
ModeErrors(shape) ==
    IF shape.mode \notin {"missing", "primary", "subagent", "all"} THEN <<ErrMode>> ELSE <<>>
ModelErrors(shape) ==
    IF shape.model \notin {"missing", "a/b"} THEN <<ErrModel>> ELSE <<>>
TemperatureErrors(shape) ==
    IF shape.temperature \notin {"missing", "0.0", "0.5", "1.0"} THEN <<ErrTemperature>>
    ELSE <<>>

Validated == probe.fn = "validateAgentContent" /\ probe.done

\* C17: validateAgentContent returns every applicable error: with a metadata
\* block one error for each violated rule among description, mode, model and
\* temperature, in that order; without one exactly the 'frontmatter' error.
C17_AllErrors ==
    Validated =>
        probe.result = IF ~HasBlock(probe.arg) THEN <<ErrFrontmatter>>
                       ELSE DescriptionErrors(probe.arg) \o ModeErrors(probe.arg)
                            \o ModelErrors(probe.arg) \o TemperatureErrors(probe.arg)

\* the result has an error on the field
ErrorOn(field) == \E i \in 1..Len(probe.result) : probe.result[i].field = field

\* C18: with a metadata block, validateAgentContent reports an error on
\* 'description' exactly when it is missing, empty or longer than 200
\* characters, on 'mode' exactly when present and not primary, subagent or all,
\* on 'model' exactly when present without '/', on 'temperature' exactly when
\* present and no number in [0.0, 1.0]; temperature 1.5 gives the message
\* 'Temperature must be a number between 0.0 and 1.0'.
C18_RuleConditions ==
    (Validated /\ HasBlock(probe.arg)) =>
        /\ ErrorOn("description") <=> DescriptionErrors(probe.arg) # <<>>
        /\ ErrorOn("mode") <=> ModeErrors(probe.arg) # <<>>
        /\ ErrorOn("model") <=> ModelErrors(probe.arg) # <<>>
        /\ ErrorOn("temperature") <=> TemperatureErrors(probe.arg) # <<>>
        /\ probe.arg.temperature = "1.5" =>
              \E i \in 1..Len(probe.result) :
                 probe.result[i].message = "Temperature must be a number between 0.0 and 1.0"

----------------------------------------------------------------------------
(* Claims about fetchSkillContent and fetchAgentContent *)

\* installFromCatalog(id) has the catalog of its kind at hand in this step: on
\* entry from the fresh cache, or when the catalog request settles with the list
\* or falls back to the cached one
FindsIn(mgr, id) ==
    \/ /\ installFromCatalog(1, mgr, id)
       /\ mgr = "skills" => isValidSlug(id)
       /\ Slot(mgr) # Null /\ now < cacheExpiry
    \/ /\ op[1].pc = "catalog" /\ op[1].mgr = mgr /\ op[1].id = id
       /\ \E status \in CatalogStatuses :
             CatalogSettle(1, status) /\ (status = 200 \/ Slot(mgr) # Null)

\* C19: fetchSkillContent(id) and fetchAgentContent(id) fail with a not-found
\* error, without any content request, when no entry of the catalog has the id;
\* when one has, they request the entry's path and return its text on a 2xx
\* response or fail with an error carrying the HTTP status.
C19_ContentFetch ==
    [][ /\ \A mgr \in {"skills", "agents"}, id \in Names :
             (op'[1] # op[1] /\ op[1].pc \in {"idle", "catalog"} /\ FindsIn(mgr, id)) =>
                IF \E entry \in CatalogEntries : entry.id = id
                THEN /\ op'[1].pc = "content"
                     /\ \E entry \in CatalogEntries :
                           entry.id = id /\ op'[1].path = entry.path
                ELSE /\ op'[1].pc = "idle"
                     /\ ~out'.success
                     /\ out'.error = IF mgr = "skills" THEN "Skill not found: id"
                                     ELSE "Agent not found: id"
        /\ (op'[1].pc = "content" /\ op[1].pc # "content") =>
              \E mgr \in {"skills", "agents"}, id \in Names : FindsIn(mgr, id)
        /\ \A status \in CatalogStatuses, page \in Documents(op[1].mgr), io \in BOOLEAN :
             (op[1].pc = "content" /\ ContentSettle(1, status, page, io)) =>
                IF status \in 200..299
                THEN \/ ~out'.success /\ out'.status = NoStatus /\ op'[1].pc = "idle"
                     \/ op[1].mgr = "skills" /\ op'[1].content = page
                     \/ op[1].mgr = "agents" /\ agentsDir'[op[1].id] = page
                ELSE /\ ~out'.success /\ op'[1].pc = "idle"
                     /\ UNCHANGED <<skillsDir, agentsDir>>
                     /\ status # 0 =>
                           /\ out'.status = status
                           /\ out'.error = IF op[1].mgr = "skills"
                                           THEN "Failed to fetch skill content"
                                           ELSE "Failed to fetch agent content"
      ]_vars

\* the content request for skill a, after the find in the cached catalog, was
\* answered with 404
C19_Witness ==
    /\ out.ended /\ out.mgr = "skills" /\ out.name = "installFromCatalog"
    /\ out.id = <<"a">> /\ out.status = 404 /\ out.error = "Failed to fetch skill content"
    /\ skillsCache # Null

----------------------------------------------------------------------------
(* Claims about the request branch *)

\* branchName of an invocation: skill-request/<skillName>-<timestamp>

\* C20: any two invocations of createSkillRequestPR, also two concurrent ones for
\* the same skill slug, create branches with different names.
C20_BranchNamesDiffer ==
    \A p, q \in 1..MaxProcs :
        (p # q /\ proc[p].branch # NoBranch /\ proc[q].branch # NoBranch)
            => BranchName(proc[p]) # BranchName(proc[q])

----------------------------------------------------------------------------
(* Claims about McpManager *)

\* the entries listInstalled reports for an id in a map
ListedFor(servers, id) == {r \in InstalledMcps(servers) : r.id = id}

\* C21: after a successful install(id, cfg) listInstalled has one entry for id,
\* enabled whatever cfg.enabled was, named id, with the type, url and command of
\* cfg; after toggleEnabled(id, e) the entry of id is listed with enabled = e;
\* after remove(id) no entry is listed for id; an entry stored without an enabled
\* field is listed as enabled; no call changes the entry of another id
C21_McpLifecycle ==
    [][/\ \A id \in McpIds, config \in ServerConfigs :
            McpInstall(id, config, TRUE) =>
                ListedFor(mcp', id) =
                    {[id |-> id, name |-> id, type |-> config.type, enabled |-> TRUE,
                      url |-> config.url, command |-> config.command]}
       /\ \A id \in McpIds, e \in BOOLEAN :
            McpToggleEnabled(id, e, TRUE) =>
                /\ \A r \in ListedFor(mcp', id) : r.enabled = e
                /\ mcp[id] # NoServer => ListedFor(mcp', id) # {}
       /\ \A id \in McpIds : McpRemove(id, TRUE) => ListedFor(mcp', id) = {}
       /\ \A id \in McpIds :
            (mcp[id] # NoServer /\ mcp[id].enabled = "undefined") =>
                \E r \in ListedFor(mcp, id) : r.enabled
       /\ \A id \in McpIds, config \in ServerConfigs, e \in BOOLEAN, io \in BOOLEAN :
            (McpInstall(id, config, io) \/ McpToggleEnabled(id, e, io) \/ McpRemove(id, io)) =>
                \A other \in McpIds \ {id} :
                    mcp'[other] = mcp[other] /\ ListedFor(mcp', other) = ListedFor(mcp, other)
       /\ McpListInstalled => mcp' = mcp
      ]_vars

\* an install given enabled: false has stored an enabled entry next to an entry
\* that has no enabled field
C21_Witness ==
    /\ mcpOut.call = "install" /\ mcpOut.success /\ mcpOut.config.enabled = "false"
    /\ mcp[mcpOut.id].enabled = "true"
    /\ \E other \in McpIds \ {mcpOut.id} : mcp[other].enabled = "undefined"

----------------------------------------------------------------------------
(* Claims about the index update of createSkillRequestPR *)

\* the ids of a skills list are pairwise distinct
DistinctIds(skills) ==
    \A i, j \in 1..Len(skills) : i # j => skills[i].id # skills[j].id

\* C22: the skills.json that step 4 writes to the request branch has pairwise
\* distinct entry ids whenever the index it read had, for every slug submitted,
\* a slug that is already an entry of the catalog included
C22_IndexIdsDistinct ==
    \A p \in 1..MaxProcs :
        (proc[p].pc = "api" /\ proc[p].step = 5 /\ DistinctIds(proc[p].catalogData.skills))
            => DistinctIds(Request(proc[p]).skills)

\* C23: the SKILL.md creation and the index update of an invocation name the
\* branch created in step 2 of that invocation, never the default branch; the
\* index is read on that branch, and the index update carries the blob sha that
\* this invocation's read returned
C23_WritesOnRequestBranch ==
    \A p \in 1..MaxProcs :
        proc[p].pc = "api" =>
            LET r == Request(proc[p]) IN
            /\ r.name \in {"file", "indexRead", "indexWrite"} =>
                  /\ r.branch = proc[p].created
                  /\ r.branch # DefaultBranch
                  /\ r.branch # NoBranchName
            /\ r.name = "indexWrite" =>
                  /\ r.sha = proc[p].catalogData.sha
                  /\ r.sha # NoSha

\* two invocations are updating the index, each on its own branch and with the
\* sha of its own read
C23_Witness ==
    \E p, q \in 1..MaxProcs :
        /\ proc[p].pc = "api" /\ proc[p].step = 5
        /\ proc[q].pc = "api" /\ proc[q].step = 5
        /\ Request(proc[p]).branch # Request(proc[q]).branch
        /\ Request(proc[p]).sha = "s1" /\ proc[p].catalogData.sha = "s1"
        /\ Request(proc[q]).sha = "s2" /\ proc[q].catalogData.sha = "s2"

----------------------------------------------------------------------------
(* Claims about the index entry *)

EntryMade == probe.fn = "indexEntry" /\ probe.done

\* text ends with three dots
EndsWithDots(text) ==
    Len(text) >= 3 /\ SubSeq(text, Len(text) - 2, Len(text)) = <<".", ".", ".">>

\* cut is text within the limit: text itself when it is that short, else limit
\* characters that begin like text and end with three dots
CutTo(cut, text, limit) ==
    /\ Len(cut) <= limit
    /\ Len(text) <= limit => cut = text
    /\ Len(text) > limit =>
          /\ Len(cut) = limit
          /\ EndsWithDots(cut)
          /\ SubSeq(cut, 1, limit - 3) = SubSeq(text, 1, limit - 3)

\* C24: the entry appended in step 4 has id = the slug, path =
\* skills/<slug>/SKILL.md, a name of at most 64 and a description of at most 200
\* characters: a text within the limit is kept, a longer one is cut to exactly
\* the limit and ends with '...'
C24_EntryTruncation ==
    EntryMade =>
        LET entry == probe.result[1]
            text == probe.arg.skillDescription
        IN /\ entry.id = probe.arg.skillName
           /\ entry.path = <<"skills", "/">> \o probe.arg.skillName \o <<"/", "SKILL.md">>
           /\ CutTo(entry.name, text, 64)
           /\ CutTo(entry.description, text, 200)

\* a description of 201 characters was cut to 200 and its name to 64
C24_Witness ==
    /\ EntryMade
    /\ Len(probe.arg.skillDescription) = 201
    /\ Len(probe.result[1].description) = 200
    /\ Len(probe.result[1].name) = 64

----------------------------------------------------------------------------
(* Claims about the required fields *)

\* the key has a line in the block, without a value: nothing or a space after it
Valueless(choice) == choice \in {"empty", "blank"}

\* C25: a required field's value is taken only from the line that carries its
\* key inside the metadata block: when that line has an empty value,
\* validateAgentContent reports 'Description is required' and parseSkillContent
\* and parseAgentContent return null, whatever lines follow in the block and
\* whatever keys the body has
C25_RequiredFieldOnItsLine ==
    /\ (Validated /\ probe.arg.block = "closed" /\ Valueless(probe.arg.description))
          => \E i \in 1..Len(probe.result) : probe.result[i] = ErrDescRequired
    /\ (probe.fn = "parseSkillContent" /\ probe.done
        /\ (Valueless(probe.arg.name) \/ Valueless(probe.arg.description)))
          => probe.result = <<NoSkill>>
    /\ (probe.fn = "parseAgentContent" /\ probe.done /\ Valueless(probe.arg.description))
          => probe.result = <<NoAgent>>

----------------------------------------------------------------------------
(* Claims about the rejection of invalid agent documents *)

\* the call returned {success: false, error: message} and no store changed
RejectedWith(message) ==
    /\ out'.ended /\ ~out'.threw /\ ~out'.success
    /\ out'.error = message
    /\ agentsDir' = agentsDir /\ skillsDir' = skillsDir

\* validateAgentContent of each agent document, as a table
ValidationErrors ==
    [content \in Documents("agents") |-> validateAgentContent(content)]

\* C26: AgentsManager.installFromCatalog and saveAgent, given a document for
\* which validateAgentContent returns a non-empty list, return {success: false}
\* whose error is the message of the first element of that list, and leave the
\* agent store unchanged
C26_FirstValidationError ==
    [][/\ (op[1].pc = "content" /\ op[1].mgr = "agents") =>
            \A page \in Documents("agents"), io \in BOOLEAN :
                (ValidationErrors[page] # <<>> /\ ContentSettle(1, 200, page, io))
                    => RejectedWith(ValidationErrors[page][1].message)
       /\ (op[1].pc = "idle" /\ out' # out /\ out'.name = "saveAgent") =>
            \A content \in Documents("agents"), io \in BOOLEAN :
                (ValidationErrors[content] # <<>> /\ saveAgent(1, out'.id, content, io))
                    => RejectedWith(ValidationErrors[content][1].message)
      ]_vars

\* C26 as amended: the same for installFromCatalog given a document that is not
\* empty and for saveAgent given a name that is a slug; installFromCatalog
\* rejects an empty document as a failed fetch and saveAgent a name that is no
\* slug as an invalid name, the store unchanged in both cases
C26_FirstValidationErrorAmended ==
    [][/\ (op[1].pc = "content" /\ op[1].mgr = "agents") =>
            \A page \in Documents("agents"), io \in BOOLEAN :
                (ValidationErrors[page] # <<>> /\ ContentSettle(1, 200, page, io))
                    => IF page # NoContent
                       THEN RejectedWith(ValidationErrors[page][1].message)
                       ELSE RejectedWith("Failed to fetch agent content from catalog")
       /\ (op[1].pc = "idle" /\ out' # out /\ out'.name = "saveAgent") =>
            \A content \in Documents("agents"), io \in BOOLEAN :
                (ValidationErrors[content] # <<>> /\ saveAgent(1, out'.id, content, io))
                    => IF isValidSlug(out'.id)
                       THEN RejectedWith(ValidationErrors[content][1].message)
                       ELSE RejectedWith("Invalid agent name. Use lowercase letters, numbers, and hyphens only.")
      ]_vars

\* an install from the catalog was rejected for a description that is too long,
\* the first of the four errors of that document
C26_Witness ==
    /\ out.ended /\ out.mgr = "agents" /\ out.name = "installFromCatalog"
    /\ ~out.success /\ out.error = ErrDescLong.message
    /\ validateAgentContent(AgentDocBad) = <<ErrDescLong, ErrMode, ErrModel, ErrTemperature>>

----------------------------------------------------------------------------
(* Claims about what a fetch of the catalog changes *)

\* C27: a successful network fetch of kind K changes the slot of K and no other
\* slot, and sets cacheExpiry to its completion time plus one hour; a failed
\* fetch and a cache hit change no slot and leave cacheExpiry alone; the slot of
\* K never holds data of another kind.
C27_FetchFrame ==
    [][/\ \A c \in 1..MaxCalls :
            Settles(c) =>
                IF ResponseOk(ret'.net)
                THEN /\ skillsCache' = IF call[c].kind = "skills"
                                        THEN Snapshot("skills", now) ELSE skillsCache
                     /\ mcpCache' = IF call[c].kind = "mcp"
                                     THEN Snapshot("mcp", now) ELSE mcpCache
                     /\ agentsCache' = IF call[c].kind = "agents"
                                        THEN Snapshot("agents", now) ELSE agentsCache
                     /\ cacheExpiry' = now + 60 * Minute
                ELSE UNCHANGED <<skillsCache, mcpCache, agentsCache, cacheExpiry>>
       /\ (ret' # ret /\ ~ret'.requested) =>
                UNCHANGED <<skillsCache, mcpCache, agentsCache, cacheExpiry>>
       /\ skillsCache'.kind \in {"null", "skills"}
       /\ mcpCache'.kind \in {"null", "mcp"}
       /\ agentsCache'.kind \in {"null", "agents"}
      ]_vars

\* a fetch of the mcp catalog succeeded half an hour or more after the skills
\* were cached: the skills slot still holds its older list and the expiry moved
C27_Witness ==
    /\ ret.requested /\ ret.kind = "mcp" /\ ResponseOk(ret.net) /\ ret.at = now
    /\ mcpCache = Snapshot("mcp", now)
    /\ skillsCache # Null /\ skillsCache.kind = "skills" /\ skillsCache.at < now
    /\ agentsCache = Null
    /\ cacheExpiry = now + cacheDuration

----------------------------------------------------------------------------
(* Claims about a refused token exchange *)

\* C28: when the token exchange gets a non-2xx response, getInstallationToken
\* raises an error carrying the status and the response body, cachedToken is
\* unchanged, and createSkillRequestPR returns {success: false} with that error
\* without issuing the API request of the step it was at.
C28_TokenRefusal ==
    [][proc[1].pc = "token" =>
          \A status \in ApiStatuses \ {0} :
              (~ResponseOk(status) /\ TokenSettle(1, status)) =>
                  /\ cachedToken' = cachedToken
                  /\ reply'.returned /\ ~reply'.result.success
                  /\ reply'.result.error.message = "Failed to get installation token"
                  /\ reply'.result.error.status = status
                  /\ reply'.result.error.body
                  /\ reply'.issued = proc[1].step - 1
                  /\ reply'.resp = proc[1].resp /\ Len(reply'.resp) = proc[1].step - 1
                  /\ proc'[1].pc = "idle"
      ]_vars

\* the token expired between two requests and the exchange made for the third
\* request got a 404: two requests were issued, the old token is still cached
C28_Witness ==
    /\ reply.returned /\ ~reply.result.success
    /\ reply.result.error = [message |-> "Failed to get installation token",
                             status |-> 404, body |-> TRUE]
    /\ reply.resp = <<200, 200>> /\ reply.issued = 2
    /\ cachedToken # NoToken /\ ~TokenUsable

----------------------------------------------------------------------------
(* Claims about concurrent manager calls *)

\* the store entries of every identifier but id are as they were
OthersUntouched(id) ==
    \A n \in Names \ {id} : skillsDir'[n] = skillsDir[n] /\ agentsDir'[n] = agentsDir[n]

\* C29: among concurrent installFromCatalog, saveAgent and remove calls on
\* pairwise different identifiers, a call on one identifier never creates,
\* changes or deletes the store entry of another identifier (so each call's
\* result and each entry's final state are those of the calls run in sequence).
C29_DifferentIdsIndependent ==
    [][/\ \A o \in 1..MaxOps :
            (op[o].pc # "idle" /\ op'[o] # op[o]) => OthersUntouched(op[o].id)
       /\ (out' # out /\ out'.name = "saveAgent") => OthersUntouched(out'.id)
      ]_vars

----------------------------------------------------------------------------
(* Claims about the checks requestSkill makes before the workflow *)

\* the checks on the URL in the order of the claim, and the error of each
UrlChecks(url) ==
    << isConfigured,
       url.valid /\ url.hostname = "skills.sh",
       Len(url.parts) >= 2,
       Len(url.parts) >= 1 /\ isValidSlug(url.parts[Len(url.parts)]) >>

CheckMessages ==
    << {"Skill requests are not configured. Contact your administrator."},
       {"Invalid URL", "URL must be from skills.sh"},
       {"Invalid skills.sh URL format. Expected: skills.sh/org/repo/skill"},
       {"Invalid skill name format in URL"} >>

\* requestSkill returns a failure with one of the messages, no request of the
\* workflow made
RefusedWith(messages) ==
    /\ reply'.returned /\ ~reply'.result.success
    /\ reply'.result.error.message \in messages
    /\ reply'.issued = 0 /\ reply'.resp = <<>>
    /\ proc'[1].pc = "idle"

\* C30: requestSkill invokes createSkillRequestPR, and so causes a GitHub API
\* request, only after these held, checked in this order: the App is configured,
\* the URL parses and its host is skills.sh, its path has two segments or more,
\* its last segment is a slug, content was fetched, the content parses with name
\* and description. A failed check returns {success: false, error} with no
\* GitHub API request made; the slug of the workflow is the last path segment.
C30_ChecksBeforeWorkflow ==
    [][/\ \A url \in Urls :
            requestSkill(1, url) =>
                LET failing == {i \in 1..4 : ~UrlChecks(url)[i]} IN
                IF failing = {}
                THEN proc'[1].pc = "skillsSh" /\ reply' = reply
                ELSE RefusedWith(CheckMessages[CHOOSE i \in failing : \A j \in failing : i <= j])
       /\ proc[1].pc \in {"skillsSh", "raw"} =>
            \A status \in PageStatuses, page \in Pages :
                (SkillsShSettle(1, status, page) \/ RawSettle(1, status, page)) =>
                    /\ proc'[1].pc \in {"token", "api"} =>
                          /\ ResponseOk(status) /\ page # NoContent
                          /\ parseSkillContent(page) # NoSkill
                          /\ parseSkillContent(page).name # <<"null">>
                          /\ parseSkillContent(page).description # <<"null">>
                    /\ (ResponseOk(status) /\ page # NoContent
                           /\ parseSkillContent(page) = NoSkill
                           /\ (proc[1].pc = "raw" \/ LooksLikeSkill(page))) =>
                          RefusedWith({"Invalid SKILL.md format: missing required frontmatter (name, description)"})
                    /\ proc'[1].pc = "idle" =>
                          RefusedWith({"Failed to fetch skill content from skills.sh",
                                       "Invalid SKILL.md format: missing required frontmatter (name, description)"})
       /\ proc[1].pc \in {"token", "api"} =>
            /\ \A i \in 1..4 : UrlChecks(proc[1].url)[i]
            /\ BranchName(proc[1]).skillName = proc[1].url.parts[Len(proc[1].url.parts)]
            /\ Request(proc[1]).branch.skillName \in
                  {<<"master">>, proc[1].url.parts[Len(proc[1].url.parts)]}
       /\ (reply.returned /\ (reply.issued > 0 \/ reply.result.success)) =>
            \A i \in 1..4 : UrlChecks(reply.url)[i]
      ]_vars

\* a page that does not parse came back from the raw URL of a three-segment
\* skills.sh address: the request was refused and nothing was sent to GitHub
C30_Witness ==
    /\ reply.returned /\ ~reply.result.success /\ reply.networked
    /\ reply.url = [valid |-> TRUE, hostname |-> "skills.sh",
                    parts |-> <<"o", "r", <<"a", "-", "b">>>>]
    /\ reply.result.error.message =
          "Invalid SKILL.md format: missing required frontmatter (name, description)"
    /\ reply.issued = 0 /\ reply.resp = <<>> /\ cachedToken = NoToken

============================================================================
